---- MODULE Spec2Model ----
(***************************************************************************)
(* A model of the 6502 core of nes_emulator: src/src/cpu.rs (the CPU, its  *)
(* flat memory, the stack, the addressing-mode resolver and the run loop)  *)
(* and src/src/opcodes.rs (the opcode table), and of the scanline clock    *)
(* and the NMI latch of src/src/nes_ppu.rs.                                *)
(*                                                                         *)
(* Bytes are naturals in 0..255 and addresses naturals in 0..65535; every  *)
(* u8/u16 operation of the source is written with its width (% 256,        *)
(* % 65536).  A Rust panic is modelled by the field err of the core record *)
(* (and the variable panic): whatever had been assigned before the panic   *)
(* stays assigned.  An integer overflow of a plain + or - panics in a      *)
(* build with overflow checks and wraps in a build without: the parameter  *)
(* oc of the operators below is that build choice.                         *)
(***************************************************************************)
EXTENDS Integers, Sequences, FiniteSets, TLC

----------------------------------------------------------------------------
(* Bit arithmetic on bytes *)

Bit(v, i) == (v \div (2 ^ i)) % 2

\* u8 & u8
BitAnd(v, w) ==
      Bit(v, 0) * Bit(w, 0) + 2 * Bit(v, 1) * Bit(w, 1)
    + 4 * Bit(v, 2) * Bit(w, 2) + 8 * Bit(v, 3) * Bit(w, 3)
    + 16 * Bit(v, 4) * Bit(w, 4) + 32 * Bit(v, 5) * Bit(w, 5)
    + 64 * Bit(v, 6) * Bit(w, 6) + 128 * Bit(v, 7) * Bit(w, 7)

\* u8 ^ u8
BitXor(v, w) == v + w - 2 * BitAnd(v, w)

\* Body applied to value, with value evaluated once
With(value, Body(_)) == CHOOSE r \in {Body(v) : v \in {value}} : TRUE

----------------------------------------------------------------------------
(* CpuFlags: the status register's bits.  cpu_flags.rs is not among the    *)
(* sources; the names are those cpu.rs uses and the bit positions are      *)
(* those of the specification's data model.                                *)

CARRY == 1
ZERO == 2
INTERRUPT_DISABLE == 4
DECIMAL_MODE == 8
OVERFLOW == 64
NEGATIV == 128

\* CpuFlags::from_bits_truncate: all eight bits are flags of the register
from_bits_truncate(bits) == bits % 256

\* CpuFlags::contains, for a one-bit flag
contains(p, flag) == BitAnd(p, flag) = flag

\* CpuFlags::insert
insert(p, flag) == IF contains(p, flag) THEN p ELSE p + flag

\* CpuFlags::remove
remove(p, flag) == IF contains(p, flag) THEN p - flag ELSE p

\* CpuFlags::set
set(p, flag, value) == IF value THEN insert(p, flag) ELSE remove(p, flag)

----------------------------------------------------------------------------
(* Constants of cpu.rs *)

STACK_RESET == 253
STACK_END == 256
\* memory: [u8; 0xffff]
MEM_SIZE == 65535
\* CpuFlags::from_bits_truncate(0b100100), the status of new() and reset()
RESET_STATUS == 36
\* where load() copies the program, and the reset vector it writes
PROGRAM_START == 32768
RESET_VECTOR == 65532

NoPanic == "none"
IndexOutOfBounds == "index out of bounds"
OpcodeNotFound == "opcode not found"
NotYetImplemented == "not yet implemented"
ModeNotSupported == "mode NoneAddressing is not supported"
AddOverflow == "attempt to add with overflow"
SubOverflow == "attempt to subtract with overflow"
SliceOutOfRange == "range end index out of range for slice"

----------------------------------------------------------------------------
(* The memory array.  A memory is the function of its non-zero cells: a    *)
(* cell outside the domain holds 0, as every cell does after new().        *)

EmptyMemory == [x \in {} |-> 0]

Peek(m, addr) == IF addr \in DOMAIN m THEN m[addr] ELSE 0

Poke(m, addr, value) ==
    IF value = 0
    THEN [x \in (DOMAIN m) \ {addr} |-> m[x]]
    ELSE [x \in (DOMAIN m) \cup {addr} |-> IF x = addr THEN value ELSE m[x]]

Result(value) == [err |-> NoPanic, val |-> value]
Failure(msg) == [err |-> msg, val |-> 0]
Panicked(c, msg) == [c EXCEPT !.err = msg]

\* Mem::mem_read of CPU: self.memory[address as usize]
mem_read(c, address) ==
    IF c.err # NoPanic THEN Failure(c.err)
    ELSE IF address < MEM_SIZE THEN Result(Peek(c.mem, address))
    ELSE Failure(IndexOutOfBounds)

\* Mem::mem_write of CPU: self.memory[address as usize] = value
mem_write(c, address, value) ==
    IF c.err # NoPanic THEN c
    ELSE IF address < MEM_SIZE THEN [c EXCEPT !.mem = Poke(c.mem, address, value)]
    ELSE Panicked(c, IndexOutOfBounds)

\* Mem::mem_read_u16: lo = read(pos); hi = read(pos + 1); (hi << 8) | lo
mem_read_u16(c, pos, oc) ==
    With(mem_read(c, pos), LAMBDA lo :
        IF lo.err # NoPanic THEN lo
        ELSE IF pos + 1 > 65535 /\ oc THEN Failure(AddOverflow)
        ELSE With(mem_read(c, (pos + 1) % 65536), LAMBDA hi :
                 IF hi.err # NoPanic THEN hi
                 ELSE Result(((hi.val * 256) % 65536) + lo.val)))

\* Mem::mem_write_u16: write(pos, lo); write(pos + 1, hi)
mem_write_u16(c, pos, data, oc) ==
    With(mem_write(c, pos, data % 256), LAMBDA c1 :
        IF c1.err # NoPanic THEN c1
        ELSE IF pos + 1 > 65535 /\ oc THEN Panicked(c1, AddOverflow)
        ELSE mem_write(c1, (pos + 1) % 65536, (data \div 256) % 256))

----------------------------------------------------------------------------
(* opcodes.rs: the table and the map built from it *)

CPU_OPS_CODES ==
<<
    [code |-> 0, mnemonic |-> "BRK", len |-> 1, cycles |-> 7, mode |-> "NoneAddressing"],
    [code |-> 170, mnemonic |-> "TAX", len |-> 1, cycles |-> 2, mode |-> "NoneAddressing"],
    [code |-> 232, mnemonic |-> "INX", len |-> 1, cycles |-> 2, mode |-> "NoneAddressing"],
    [code |-> 200, mnemonic |-> "INY", len |-> 1, cycles |-> 2, mode |-> "NoneAddressing"],
    [code |-> 169, mnemonic |-> "LDA", len |-> 2, cycles |-> 2, mode |-> "Immediate"],
    [code |-> 165, mnemonic |-> "LDA", len |-> 2, cycles |-> 3, mode |-> "ZeroPage"],
    [code |-> 181, mnemonic |-> "LDA", len |-> 2, cycles |-> 4, mode |-> "ZeroPage_X"],
    [code |-> 173, mnemonic |-> "LDA", len |-> 3, cycles |-> 4, mode |-> "Absolute"],
    [code |-> 189, mnemonic |-> "LDA", len |-> 3, cycles |-> 4, mode |-> "Absolute_X"],
    [code |-> 185, mnemonic |-> "LDA", len |-> 3, cycles |-> 4, mode |-> "Absolute_Y"],
    [code |-> 161, mnemonic |-> "LDA", len |-> 2, cycles |-> 6, mode |-> "Indirect_X"],
    [code |-> 177, mnemonic |-> "LDA", len |-> 2, cycles |-> 5, mode |-> "Indirect_Y"],
    [code |-> 133, mnemonic |-> "STA", len |-> 2, cycles |-> 3, mode |-> "ZeroPage"],
    [code |-> 149, mnemonic |-> "STA", len |-> 2, cycles |-> 4, mode |-> "ZeroPage_X"],
    [code |-> 141, mnemonic |-> "STA", len |-> 3, cycles |-> 4, mode |-> "Absolute"],
    [code |-> 157, mnemonic |-> "STA", len |-> 3, cycles |-> 5, mode |-> "Absolute_X"],
    [code |-> 153, mnemonic |-> "STA", len |-> 3, cycles |-> 5, mode |-> "Absolute_Y"],
    [code |-> 129, mnemonic |-> "STA", len |-> 2, cycles |-> 6, mode |-> "Indirect_X"],
    [code |-> 145, mnemonic |-> "STA", len |-> 2, cycles |-> 6, mode |-> "Indirect_Y"],
    [code |-> 41, mnemonic |-> "AND", len |-> 2, cycles |-> 2, mode |-> "Immediate"],
    [code |-> 37, mnemonic |-> "AND", len |-> 2, cycles |-> 3, mode |-> "ZeroPage"],
    [code |-> 53, mnemonic |-> "AND", len |-> 2, cycles |-> 4, mode |-> "ZeroPage_X"],
    [code |-> 45, mnemonic |-> "AND", len |-> 3, cycles |-> 4, mode |-> "Absolute"],
    [code |-> 61, mnemonic |-> "AND", len |-> 3, cycles |-> 4, mode |-> "Absolute_X"],
    [code |-> 57, mnemonic |-> "AND", len |-> 3, cycles |-> 4, mode |-> "Absolute_Y"],
    [code |-> 33, mnemonic |-> "AND", len |-> 2, cycles |-> 6, mode |-> "Indirect_X"],
    [code |-> 49, mnemonic |-> "AND", len |-> 2, cycles |-> 5, mode |-> "Indirect_Y"],
    [code |-> 10, mnemonic |-> "ASL", len |-> 1, cycles |-> 2, mode |-> "NoneAddressing"],
    [code |-> 6, mnemonic |-> "ASL", len |-> 2, cycles |-> 5, mode |-> "ZeroPage"],
    [code |-> 22, mnemonic |-> "ASL", len |-> 2, cycles |-> 6, mode |-> "ZeroPage_X"],
    [code |-> 14, mnemonic |-> "ASL", len |-> 3, cycles |-> 6, mode |-> "Absolute"],
    [code |-> 30, mnemonic |-> "ASL", len |-> 3, cycles |-> 7, mode |-> "Absolute_X"],
    [code |-> 144, mnemonic |-> "BCC", len |-> 2, cycles |-> 2, mode |-> "NoneAddressing"],
    [code |-> 176, mnemonic |-> "BCS", len |-> 2, cycles |-> 2, mode |-> "NoneAddressing"],
    [code |-> 240, mnemonic |-> "BEQ", len |-> 2, cycles |-> 2, mode |-> "NoneAddressing"],
    [code |-> 208, mnemonic |-> "BNE", len |-> 2, cycles |-> 2, mode |-> "NoneAddressing"],
    [code |-> 36, mnemonic |-> "BIT", len |-> 2, cycles |-> 3, mode |-> "ZeroPage"],
    [code |-> 44, mnemonic |-> "BIT", len |-> 3, cycles |-> 4, mode |-> "Absolute"],
    [code |-> 48, mnemonic |-> "BMI", len |-> 2, cycles |-> 2, mode |-> "NoneAddressing"],
    [code |-> 16, mnemonic |-> "BPL", len |-> 2, cycles |-> 2, mode |-> "NoneAddressing"],
    [code |-> 80, mnemonic |-> "BVC", len |-> 2, cycles |-> 2, mode |-> "NoneAddressing"],
    [code |-> 112, mnemonic |-> "BVS", len |-> 2, cycles |-> 2, mode |-> "NoneAddressing"],
    [code |-> 24, mnemonic |-> "CLC", len |-> 1, cycles |-> 2, mode |-> "NoneAddressing"],
    [code |-> 216, mnemonic |-> "CLD", len |-> 1, cycles |-> 2, mode |-> "NoneAddressing"],
    [code |-> 88, mnemonic |-> "CLI", len |-> 1, cycles |-> 2, mode |-> "NoneAddressing"],
    [code |-> 184, mnemonic |-> "CLV", len |-> 1, cycles |-> 2, mode |-> "NoneAddressing"],
    [code |-> 201, mnemonic |-> "CMP", len |-> 2, cycles |-> 2, mode |-> "Immediate"],
    [code |-> 197, mnemonic |-> "CMP", len |-> 2, cycles |-> 3, mode |-> "ZeroPage"],
    [code |-> 213, mnemonic |-> "CMP", len |-> 2, cycles |-> 4, mode |-> "ZeroPage_X"],
    [code |-> 205, mnemonic |-> "CMP", len |-> 3, cycles |-> 4, mode |-> "Absolute"],
    [code |-> 221, mnemonic |-> "CMP", len |-> 3, cycles |-> 4, mode |-> "Absolute_X"],
    [code |-> 217, mnemonic |-> "CMP", len |-> 3, cycles |-> 4, mode |-> "Absolute_Y"],
    [code |-> 193, mnemonic |-> "CMP", len |-> 3, cycles |-> 4, mode |-> "Indirect_X"],
    [code |-> 209, mnemonic |-> "CMP", len |-> 3, cycles |-> 4, mode |-> "Indirect_Y"],
    [code |-> 224, mnemonic |-> "CPX", len |-> 2, cycles |-> 2, mode |-> "Immediate"],
    [code |-> 228, mnemonic |-> "CPX", len |-> 2, cycles |-> 3, mode |-> "ZeroPage"],
    [code |-> 236, mnemonic |-> "CPX", len |-> 2, cycles |-> 3, mode |-> "Absolute"],
    [code |-> 192, mnemonic |-> "CPY", len |-> 2, cycles |-> 2, mode |-> "Immediate"],
    [code |-> 196, mnemonic |-> "CPY", len |-> 2, cycles |-> 3, mode |-> "ZeroPage"],
    [code |-> 204, mnemonic |-> "CPY", len |-> 2, cycles |-> 3, mode |-> "Absolute"],
    [code |-> 198, mnemonic |-> "DEC", len |-> 2, cycles |-> 5, mode |-> "ZeroPage"],
    [code |-> 214, mnemonic |-> "DEC", len |-> 2, cycles |-> 6, mode |-> "ZeroPage_X"],
    [code |-> 206, mnemonic |-> "DEC", len |-> 3, cycles |-> 6, mode |-> "Absolute"],
    [code |-> 222, mnemonic |-> "DEC", len |-> 3, cycles |-> 7, mode |-> "Absolute_X"],
    [code |-> 202, mnemonic |-> "DEX", len |-> 1, cycles |-> 2, mode |-> "NoneAddressing"],
    [code |-> 136, mnemonic |-> "DEY", len |-> 1, cycles |-> 2, mode |-> "NoneAddressing"],
    [code |-> 73, mnemonic |-> "EOR", len |-> 2, cycles |-> 2, mode |-> "Immediate"],
    [code |-> 69, mnemonic |-> "EOR", len |-> 2, cycles |-> 3, mode |-> "ZeroPage"],
    [code |-> 85, mnemonic |-> "EOR", len |-> 2, cycles |-> 4, mode |-> "ZeroPage_X"],
    [code |-> 77, mnemonic |-> "EOR", len |-> 3, cycles |-> 4, mode |-> "Absolute"],
    [code |-> 93, mnemonic |-> "EOR", len |-> 3, cycles |-> 4, mode |-> "Absolute_X"],
    [code |-> 89, mnemonic |-> "EOR", len |-> 3, cycles |-> 4, mode |-> "Absolute_Y"],
    [code |-> 65, mnemonic |-> "EOR", len |-> 2, cycles |-> 6, mode |-> "Indirect_X"],
    [code |-> 81, mnemonic |-> "EOR", len |-> 2, cycles |-> 5, mode |-> "Indirect_Y"],
    [code |-> 230, mnemonic |-> "INC", len |-> 2, cycles |-> 5, mode |-> "ZeroPage"],
    [code |-> 246, mnemonic |-> "INC", len |-> 2, cycles |-> 6, mode |-> "ZeroPage_X"],
    [code |-> 238, mnemonic |-> "INC", len |-> 3, cycles |-> 6, mode |-> "Absolute"],
    [code |-> 254, mnemonic |-> "INC", len |-> 3, cycles |-> 7, mode |-> "Absolute_X"],
    [code |-> 76, mnemonic |-> "JMP", len |-> 3, cycles |-> 3, mode |-> "NoneAddressing"],
    [code |-> 108, mnemonic |-> "JMP", len |-> 3, cycles |-> 5, mode |-> "NoneAddressing"],
    [code |-> 32, mnemonic |-> "JSR", len |-> 3, cycles |-> 6, mode |-> "NoneAddressing"]
>>

\* OPCODES_MAP: for cpuop in &*CPU_OPS_CODES { map.insert(cpuop.code, cpuop) }
OPCODES_MAP ==
    [k \in {CPU_OPS_CODES[i].code : i \in 1 .. Len(CPU_OPS_CODES)} |->
        LET last == CHOOSE i \in 1 .. Len(CPU_OPS_CODES) :
                      /\ CPU_OPS_CODES[i].code = k
                      /\ \A j \in 1 .. Len(CPU_OPS_CODES) :
                            CPU_OPS_CODES[j].code = k => j <= i
        IN  CPU_OPS_CODES[last]]

----------------------------------------------------------------------------
(* cpu.rs.  A core is the record of the CPU's fields:                      *)
(*   a, x, y   register_a, register_x, register_y                          *)
(*   p         status (the bits of CpuFlags)                               *)
(*   pc, sp    program_counter, stack_pointer                              *)
(*   mem       memory                                                      *)
(*   err       NoPanic, or the message of the panic that ended the call    *)

\* CPU::new
new ==
    [a |-> 0, x |-> 0, y |-> 0, p |-> from_bits_truncate(RESET_STATUS),
     pc |-> 0, sp |-> STACK_RESET, mem |-> EmptyMemory, err |-> NoPanic]

\* A program (Vec<u8>) is its length and the function of its non-zero bytes,
\* indexed from 0.
Vec(bytes) ==
    [len |-> Len(bytes),
     cells |-> [i \in {j \in 0 .. Len(bytes) - 1 : bytes[j + 1] # 0} |-> bytes[i + 1]]]

ProgramByte(program, i) == Peek(program.cells, i)

\* self.memory[0x8000..0x8000 + program.len()].copy_from_slice(&program)
copy_from_slice(m, program) ==
    LET kept == {x \in DOMAIN m : x < PROGRAM_START \/ x >= PROGRAM_START + program.len}
        copied == {PROGRAM_START + i : i \in DOMAIN program.cells}
    IN  [x \in kept \cup copied |->
            IF x \in copied THEN program.cells[x - PROGRAM_START] ELSE m[x]]

\* load with a fault: the reset vector is not written
load_without_vector(c, program, oc) ==
    IF PROGRAM_START + program.len > MEM_SIZE THEN Panicked(c, SliceOutOfRange)
    ELSE [c EXCEPT !.mem = copy_from_slice(c.mem, program)]

\* CPU::load
load(c, program, oc) ==
    IF PROGRAM_START + program.len > MEM_SIZE THEN Panicked(c, SliceOutOfRange)
    ELSE mem_write_u16([c EXCEPT !.mem = copy_from_slice(c.mem, program)],
                       RESET_VECTOR, PROGRAM_START, oc)

\* reset with a fault: the status is set to 0b000100
reset_without_bit5(c, oc) ==
    With([c EXCEPT !.a = 0, !.x = 0, !.y = 0, !.p = from_bits_truncate(INTERRUPT_DISABLE)],
         LAMBDA c1 :
        With(mem_read_u16(c1, RESET_VECTOR, oc), LAMBDA vector :
            IF vector.err # NoPanic THEN Panicked(c1, vector.err)
            ELSE [c1 EXCEPT !.pc = vector.val, !.sp = STACK_RESET]))

\* reset with a fault: the stack pointer is left as it was
reset_keeping_stack_pointer(c, oc) ==
    With([c EXCEPT !.a = 0, !.x = 0, !.y = 0, !.p = from_bits_truncate(RESET_STATUS)],
         LAMBDA c1 :
        With(mem_read_u16(c1, RESET_VECTOR, oc), LAMBDA vector :
            IF vector.err # NoPanic THEN Panicked(c1, vector.err)
            ELSE [c1 EXCEPT !.pc = vector.val]))

\* CPU::reset
reset(c, oc) ==
    With([c EXCEPT !.a = 0, !.x = 0, !.y = 0, !.p = from_bits_truncate(RESET_STATUS)],
         LAMBDA c1 :
        With(mem_read_u16(c1, RESET_VECTOR, oc), LAMBDA vector :
            IF vector.err # NoPanic THEN Panicked(c1, vector.err)
            ELSE [c1 EXCEPT !.pc = vector.val, !.sp = STACK_RESET]))

\* CPU::stack_push
stack_push(c, value) ==
    With(mem_write(c, STACK_END + c.sp, value), LAMBDA c1 :
        IF c1.err # NoPanic THEN c1
        ELSE [c1 EXCEPT !.sp = (c1.sp + 255) % 256])

\* CPU::stack_pop: the core after the pop, and the byte popped
stack_pop(c) ==
    With([c EXCEPT !.sp = (c.sp + 1) % 256], LAMBDA c1 :
        With(mem_read(c1, STACK_END + c1.sp), LAMBDA r :
            [core |-> IF r.err # NoPanic THEN Panicked(c1, r.err) ELSE c1,
             val |-> r.val]))

\* CPU::stack_push_u16: the high byte first
stack_push_u16(c, value) ==
    stack_push(stack_push(c, (value \div 256) % 256), value % 256)

\* stack_pop_u16 with a fault: the high byte is popped first
stack_pop_u16_high_first(c) ==
    With(stack_pop(c), LAMBDA hi :
        With(stack_pop(hi.core), LAMBDA lo :
            [core |-> lo.core, val |-> ((hi.val * 256) % 65536) + lo.val]))

\* CPU::stack_pop_u16: the low byte first
stack_pop_u16(c) ==
    With(stack_pop(c), LAMBDA lo :
        With(stack_pop(lo.core), LAMBDA hi :
            [core |-> hi.core, val |-> ((hi.val * 256) % 65536) + lo.val]))

\* update_zero_and_negative_flags with a fault: ZERO is never cleared
update_zero_and_negative_flags_sticky_zero(c, result) ==
    With(IF result = 0 THEN insert(c.p, ZERO) ELSE c.p, LAMBDA p1 :
        [c EXCEPT !.p = IF BitAnd(result, 128) # 0
                        THEN insert(p1, NEGATIV) ELSE remove(p1, NEGATIV)])

\* CPU::update_zero_and_negative_flags
update_zero_and_negative_flags(c, result) ==
    With(IF result = 0 THEN insert(c.p, ZERO) ELSE remove(c.p, ZERO), LAMBDA p1 :
        [c EXCEPT !.p = IF BitAnd(result, 128) # 0
                        THEN insert(p1, NEGATIV) ELSE remove(p1, NEGATIV)])

\* CPU::set_register_a
set_register_a(c, value) ==
    update_zero_and_negative_flags([c EXCEPT !.a = value], value)

\* CPU::set_register_x
set_register_x(c, value) ==
    update_zero_and_negative_flags([c EXCEPT !.x = value], value)

\* CPU::set_register_y
set_register_y(c, value) ==
    update_zero_and_negative_flags([c EXCEPT !.y = value], value)

\* get_operand_address with a fault: the zero-page index sum is widened to 16
\* bits before it wraps
get_operand_address_unwrapped(c, mode, oc) ==
    CASE mode = "Immediate" -> Result(c.pc)
      [] mode = "ZeroPage" -> mem_read(c, c.pc)
      [] mode = "Absolute" -> mem_read_u16(c, c.pc, oc)
      [] mode \in {"ZeroPage_X", "ZeroPage_Y"} ->
            With(mem_read(c, c.pc), LAMBDA pos :
                IF pos.err # NoPanic THEN pos
                ELSE Result(pos.val + (IF mode = "ZeroPage_X" THEN c.x ELSE c.y)))
      [] mode \in {"Absolute_X", "Absolute_Y"} ->
            With(mem_read_u16(c, c.pc, oc), LAMBDA base :
                IF base.err # NoPanic THEN base
                ELSE Result((base.val + (IF mode = "Absolute_X" THEN c.x ELSE c.y)) % 65536))
      [] mode = "Indirect_X" ->
            With(mem_read(c, c.pc), LAMBDA base :
                IF base.err # NoPanic THEN base
                ELSE With((base.val + c.x) % 256, LAMBDA ptr :
                     With(mem_read(c, ptr), LAMBDA lo :
                     With(mem_read(c, (ptr + 1) % 256), LAMBDA hi :
                         IF lo.err # NoPanic THEN lo
                         ELSE IF hi.err # NoPanic THEN hi
                         ELSE Result(((hi.val * 256) % 65536) + lo.val)))))
      [] mode = "Indirect_Y" ->
            With(mem_read(c, c.pc), LAMBDA base :
                IF base.err # NoPanic THEN base
                ELSE With(mem_read(c, base.val), LAMBDA lo :
                     With(mem_read(c, (base.val + 1) % 256), LAMBDA hi :
                         IF lo.err # NoPanic THEN lo
                         ELSE IF hi.err # NoPanic THEN hi
                         ELSE Result(((((hi.val * 256) % 65536) + lo.val) + c.y) % 65536))))
      [] OTHER -> Failure(ModeNotSupported)

\* get_operand_address with a fault: the high pointer byte of the indirect
\* modes is read from the cell after the pointer without the zero-page wrap
get_operand_address_pointer_crossing(c, mode, oc) ==
    CASE mode = "Immediate" -> Result(c.pc)
      [] mode = "ZeroPage" -> mem_read(c, c.pc)
      [] mode = "Absolute" -> mem_read_u16(c, c.pc, oc)
      [] mode \in {"ZeroPage_X", "ZeroPage_Y"} ->
            With(mem_read(c, c.pc), LAMBDA pos :
                IF pos.err # NoPanic THEN pos
                ELSE Result((pos.val + (IF mode = "ZeroPage_X" THEN c.x ELSE c.y)) % 256))
      [] mode \in {"Absolute_X", "Absolute_Y"} ->
            With(mem_read_u16(c, c.pc, oc), LAMBDA base :
                IF base.err # NoPanic THEN base
                ELSE Result((base.val + (IF mode = "Absolute_X" THEN c.x ELSE c.y)) % 65536))
      [] mode = "Indirect_X" ->
            With(mem_read(c, c.pc), LAMBDA base :
                IF base.err # NoPanic THEN base
                ELSE With((base.val + c.x) % 256, LAMBDA ptr :
                     With(mem_read(c, ptr), LAMBDA lo :
                     With(mem_read(c, ptr + 1), LAMBDA hi :
                         IF lo.err # NoPanic THEN lo
                         ELSE IF hi.err # NoPanic THEN hi
                         ELSE Result(((hi.val * 256) % 65536) + lo.val)))))
      [] mode = "Indirect_Y" ->
            With(mem_read(c, c.pc), LAMBDA base :
                IF base.err # NoPanic THEN base
                ELSE With(mem_read(c, base.val), LAMBDA lo :
                     With(mem_read(c, base.val + 1), LAMBDA hi :
                         IF lo.err # NoPanic THEN lo
                         ELSE IF hi.err # NoPanic THEN hi
                         ELSE Result(((((hi.val * 256) % 65536) + lo.val) + c.y) % 65536))))
      [] OTHER -> Failure(ModeNotSupported)

\* CPU::get_operand_address
get_operand_address(c, mode, oc) ==
    CASE mode = "Immediate" -> Result(c.pc)
      [] mode = "ZeroPage" -> mem_read(c, c.pc)
      [] mode = "Absolute" -> mem_read_u16(c, c.pc, oc)
      [] mode \in {"ZeroPage_X", "ZeroPage_Y"} ->
            With(mem_read(c, c.pc), LAMBDA pos :
                IF pos.err # NoPanic THEN pos
                ELSE Result((pos.val + (IF mode = "ZeroPage_X" THEN c.x ELSE c.y)) % 256))
      [] mode \in {"Absolute_X", "Absolute_Y"} ->
            With(mem_read_u16(c, c.pc, oc), LAMBDA base :
                IF base.err # NoPanic THEN base
                ELSE Result((base.val + (IF mode = "Absolute_X" THEN c.x ELSE c.y)) % 65536))
      [] mode = "Indirect_X" ->
            With(mem_read(c, c.pc), LAMBDA base :
                IF base.err # NoPanic THEN base
                ELSE With((base.val + c.x) % 256, LAMBDA ptr :
                     With(mem_read(c, ptr), LAMBDA lo :
                     With(mem_read(c, (ptr + 1) % 256), LAMBDA hi :
                         IF lo.err # NoPanic THEN lo
                         ELSE IF hi.err # NoPanic THEN hi
                         ELSE Result(((hi.val * 256) % 65536) + lo.val)))))
      [] mode = "Indirect_Y" ->
            With(mem_read(c, c.pc), LAMBDA base :
                IF base.err # NoPanic THEN base
                ELSE With(mem_read(c, base.val), LAMBDA lo :
                     With(mem_read(c, (base.val + 1) % 256), LAMBDA hi :
                         IF lo.err # NoPanic THEN lo
                         ELSE IF hi.err # NoPanic THEN hi
                         ELSE Result(((((hi.val * 256) % 65536) + lo.val) + c.y) % 65536))))
      [] OTHER -> Failure(ModeNotSupported)

\* let addr = self.get_operand_address(mode); let value = self.mem_read(addr);
\* the address and the byte there, or the panic of either
read_operand(c, mode, oc) ==
    With(get_operand_address(c, mode, oc), LAMBDA addr :
        IF addr.err # NoPanic THEN [err |-> addr.err, addr |-> 0, val |-> 0]
        ELSE With(mem_read(c, addr.val), LAMBDA value :
                 [err |-> value.err, addr |-> addr.val, val |-> value.val]))

\* CPU::jsr
jsr(c, oc) ==
    IF c.pc + 2 > 65535 /\ oc THEN Panicked(c, AddOverflow)
    ELSE With((c.pc + 2) % 65536, LAMBDA sum :
         IF sum - 1 < 0 /\ oc THEN Panicked(c, SubOverflow)
         ELSE With(stack_push_u16(c, (sum + 65535) % 65536), LAMBDA c1 :
              With(mem_read_u16(c1, c1.pc, oc), LAMBDA target_address :
                  IF c1.err # NoPanic THEN c1
                  ELSE IF target_address.err # NoPanic
                       THEN Panicked(c1, target_address.err)
                  ELSE [c1 EXCEPT !.pc = target_address.val])))

\* CPU::jmp_indirect
jmp_indirect(c, oc) ==
    With(mem_read_u16(c, c.pc, oc), LAMBDA addr :
        IF addr.err # NoPanic THEN Panicked(c, addr.err)
        ELSE With(IF addr.val % 256 = 255
                  THEN With(mem_read(c, addr.val), LAMBDA lo :
                       With(mem_read(c, addr.val - (addr.val % 256)), LAMBDA hi :
                           IF lo.err # NoPanic THEN lo
                           ELSE IF hi.err # NoPanic THEN hi
                           ELSE Result(((hi.val * 256) % 65536) + lo.val)))
                  ELSE mem_read_u16(c, addr.val, oc),
                  LAMBDA indirect_ref :
                 IF indirect_ref.err # NoPanic THEN Panicked(c, indirect_ref.err)
                 ELSE [c EXCEPT !.pc = indirect_ref.val]))

\* the JMP absolute arm of run: self.program_counter = self.mem_read_u16(self.program_counter)
jmp_absolute(c, oc) ==
    With(mem_read_u16(c, c.pc, oc), LAMBDA target :
        IF target.err # NoPanic THEN Panicked(c, target.err)
        ELSE [c EXCEPT !.pc = target.val])

\* CPU::lda
lda(c, mode, oc) ==
    With(read_operand(c, mode, oc), LAMBDA o :
        IF o.err # NoPanic THEN Panicked(c, o.err) ELSE set_register_a(c, o.val))

\* CPU::ldx
ldx(c, mode, oc) ==
    With(read_operand(c, mode, oc), LAMBDA o :
        IF o.err # NoPanic THEN Panicked(c, o.err) ELSE set_register_x(c, o.val))

\* CPU::ldy
ldy(c, mode, oc) ==
    With(read_operand(c, mode, oc), LAMBDA o :
        IF o.err # NoPanic THEN Panicked(c, o.err) ELSE set_register_y(c, o.val))

\* CPU::tax
tax(c) == set_register_x(c, c.a)

\* The body shared by the eight branch handlers: when the flag test passes,
\* addr = get_operand_address(mode); program_counter = addr
branch(c, mode, condition, oc) ==
    IF condition
    THEN With(get_operand_address(c, mode, oc), LAMBDA addr :
             IF addr.err # NoPanic THEN Panicked(c, addr.err)
             ELSE [c EXCEPT !.pc = addr.val])
    ELSE c

\* CPU::bcc
bcc(c, mode, oc) == branch(c, mode, ~contains(c.p, CARRY), oc)

\* bcs with a fault: the test on CARRY is inverted
bcs_inverted(c, mode, oc) == branch(c, mode, ~contains(c.p, CARRY), oc)

\* CPU::bcs
bcs(c, mode, oc) == branch(c, mode, contains(c.p, CARRY), oc)

\* CPU::beq
beq(c, mode, oc) == branch(c, mode, contains(c.p, ZERO), oc)

\* CPU::bne
bne(c, mode, oc) == branch(c, mode, ~contains(c.p, ZERO), oc)

\* CPU::bmi
bmi(c, mode, oc) == branch(c, mode, contains(c.p, NEGATIV), oc)

\* CPU::bpl
bpl(c, mode, oc) == branch(c, mode, ~contains(c.p, NEGATIV), oc)

\* CPU::bvc
bvc(c, mode, oc) == branch(c, mode, ~contains(c.p, OVERFLOW), oc)

\* CPU::bvs
bvs(c, mode, oc) == branch(c, mode, contains(c.p, OVERFLOW), oc)

\* bit with a fault: NEGATIV is taken from A AND operand
bit_negative_from_and(c, mode, oc) ==
    With(read_operand(c, mode, oc), LAMBDA o :
        IF o.err # NoPanic THEN Panicked(c, o.err)
        ELSE With(IF BitAnd(c.a, o.val) = 0 THEN insert(c.p, ZERO) ELSE remove(c.p, ZERO),
                  LAMBDA p1 :
             With(set(p1, NEGATIV, BitAnd(BitAnd(c.a, o.val), 128) > 0), LAMBDA p2 :
                 [c EXCEPT !.p = set(p2, OVERFLOW, BitAnd(o.val, 64) > 0)])))

\* CPU::bit
bit(c, mode, oc) ==
    With(read_operand(c, mode, oc), LAMBDA o :
        IF o.err # NoPanic THEN Panicked(c, o.err)
        ELSE With(IF BitAnd(c.a, o.val) = 0 THEN insert(c.p, ZERO) ELSE remove(c.p, ZERO),
                  LAMBDA p1 :
             With(set(p1, NEGATIV, BitAnd(o.val, 128) > 0), LAMBDA p2 :
                 [c EXCEPT !.p = set(p2, OVERFLOW, BitAnd(o.val, 64) > 0)])))

\* compare with a fault: CARRY is set only when the register is greater
compare_strict(c, mode, compare_with, oc) ==
    With(read_operand(c, mode, oc), LAMBDA o :
        IF o.err # NoPanic THEN Panicked(c, o.err)
        ELSE update_zero_and_negative_flags(
                 [c EXCEPT !.p = IF compare_with > o.val
                                 THEN insert(c.p, CARRY) ELSE remove(c.p, CARRY)],
                 (compare_with + 256 - o.val) % 256))

\* CPU::compare
compare(c, mode, compare_with, oc) ==
    With(read_operand(c, mode, oc), LAMBDA o :
        IF o.err # NoPanic THEN Panicked(c, o.err)
        ELSE update_zero_and_negative_flags(
                 [c EXCEPT !.p = IF compare_with >= o.val
                                 THEN insert(c.p, CARRY) ELSE remove(c.p, CARRY)],
                 (compare_with + 256 - o.val) % 256))

\* CPU::dec
dec(c, mode, oc) ==
    With(read_operand(c, mode, oc), LAMBDA o :
        IF o.err # NoPanic THEN Panicked(c, o.err)
        ELSE update_zero_and_negative_flags(mem_write(c, o.addr, (o.val + 255) % 256),
                                            (o.val + 255) % 256))

\* CPU::decx
decx(c) == set_register_x(c, (c.x + 255) % 256)

\* CPU::decy
decy(c) == set_register_y(c, (c.y + 255) % 256)

\* CPU::inc
inc(c, mode, oc) ==
    With(read_operand(c, mode, oc), LAMBDA o :
        IF o.err # NoPanic THEN Panicked(c, o.err)
        ELSE update_zero_and_negative_flags(mem_write(c, o.addr, (o.val + 1) % 256),
                                            (o.val + 1) % 256))

\* CPU::asl
asl(c, mode, oc) ==
    With(read_operand(c, mode, oc), LAMBDA o :
        IF o.err # NoPanic THEN Panicked(c, o.err)
        ELSE update_zero_and_negative_flags(mem_write(c, o.addr, (o.val * 2) % 256),
                                            (o.val * 2) % 256))

\* CPU::lsr
lsr(c, mode, oc) ==
    With(read_operand(c, mode, oc), LAMBDA o :
        IF o.err # NoPanic THEN Panicked(c, o.err)
        ELSE With(update_zero_and_negative_flags(mem_write(c, o.addr, o.val \div 2),
                                                 o.val \div 2), LAMBDA c1 :
                 [c1 EXCEPT !.p = IF o.val % 2 = 1
                                  THEN insert(c1.p, CARRY) ELSE remove(c1.p, CARRY)]))

\* CPU::inx
inx(c) == set_register_x(c, (c.x + 1) % 256)

\* CPU::iny
iny(c) == set_register_y(c, (c.y + 1) % 256)

\* CPU::and
and(c, mode, oc) ==
    With(read_operand(c, mode, oc), LAMBDA o :
        IF o.err # NoPanic THEN Panicked(c, o.err)
        ELSE set_register_a(c, BitAnd(c.a, o.val)))

\* CPU::eor
eor(c, mode, oc) ==
    With(read_operand(c, mode, oc), LAMBDA o :
        IF o.err # NoPanic THEN Panicked(c, o.err)
        ELSE set_register_a(c, BitXor(c.a, o.val)))

\* sta with a fault: the flags follow the value stored
sta_updating_flags(c, mode, oc) ==
    With(get_operand_address(c, mode, oc), LAMBDA addr :
        IF addr.err # NoPanic THEN Panicked(c, addr.err)
        ELSE update_zero_and_negative_flags(mem_write(c, addr.val, c.a), c.a))

\* CPU::sta
sta(c, mode, oc) ==
    With(get_operand_address(c, mode, oc), LAMBDA addr :
        IF addr.err # NoPanic THEN Panicked(c, addr.err)
        ELSE mem_write(c, addr.val, c.a))

----------------------------------------------------------------------------
(* CPU::run: the match on the opcode byte, and one iteration of the loop   *)

\* the arms of match code { ... } other than 0x00 => return
dispatch(c, op, opcode, oc) ==
    CASE op \in {169, 165, 181, 173, 189, 185, 161, 177} -> lda(c, opcode.mode, oc)
      [] op \in {162, 166, 182, 174, 190} -> ldx(c, opcode.mode, oc)
      [] op \in {160, 164, 180, 172, 188} -> ldy(c, opcode.mode, oc)
      [] op \in {133, 149, 141, 157, 153, 129, 145} -> sta(c, opcode.mode, oc)
      [] op \in {10, 6, 22, 14, 30} -> asl(c, opcode.mode, oc)
      [] op = 144 -> bcc(c, opcode.mode, oc)
      [] op = 176 -> bcs(c, opcode.mode, oc)
      [] op = 240 -> beq(c, opcode.mode, oc)
      [] op = 208 -> bne(c, opcode.mode, oc)
      [] op \in {36, 44} -> bit(c, opcode.mode, oc)
      [] op = 48 -> bmi(c, opcode.mode, oc)
      [] op = 16 -> bpl(c, opcode.mode, oc)
      [] op = 80 -> bvc(c, opcode.mode, oc)
      [] op = 112 -> bvs(c, opcode.mode, oc)
      [] op = 24 -> [c EXCEPT !.p = remove(c.p, CARRY)]
      [] op = 216 -> [c EXCEPT !.p = remove(c.p, DECIMAL_MODE)]
      [] op = 88 -> [c EXCEPT !.p = remove(c.p, INTERRUPT_DISABLE)]
      [] op = 184 -> [c EXCEPT !.p = remove(c.p, OVERFLOW)]
      [] op \in {201, 197, 213, 205, 221, 217, 193, 209} -> compare(c, opcode.mode, c.a, oc)
      [] op \in {224, 228, 236} -> compare(c, opcode.mode, c.x, oc)
      [] op \in {192, 196, 204} -> compare(c, opcode.mode, c.y, oc)
      [] op \in {198, 214, 206, 222} -> dec(c, opcode.mode, oc)
      [] op = 202 -> decx(c)
      [] op = 136 -> decy(c)
      [] op \in {73, 69, 85, 77, 93, 89, 65, 81} -> eor(c, opcode.mode, oc)
      [] op \in {230, 246, 238, 254} -> inc(c, opcode.mode, oc)
      [] op = 76 -> jmp_absolute(c, oc)
      [] op = 108 -> jmp_indirect(c, oc)
      [] op = 32 -> jsr(c, oc)
      [] op = 170 -> tax(c)
      [] op = 232 -> inx(c)
      [] op = 200 -> iny(c)
      [] op \in {74, 70, 86, 78, 94} -> lsr(c, opcode.mode, oc)
      [] op \in {41, 37, 53, 45, 61, 57, 33, 49} -> and(c, opcode.mode, oc)
      [] OTHER -> Panicked(c, NotYetImplemented)

\* advance with a fault: the whole length is added
advance_by_len(c, pcs, opcode, oc) ==
    IF pcs # c.pc THEN c
    ELSE IF c.pc + opcode.len > 65535 /\ oc THEN Panicked(c, AddOverflow)
    ELSE [c EXCEPT !.pc = (c.pc + opcode.len) % 65536]

\* if program_counter_state == self.program_counter
\*     { self.program_counter += (opcode.len - 1) as u16; }
advance(c, pcs, opcode, oc) ==
    IF pcs # c.pc THEN c
    ELSE IF c.pc + (opcode.len - 1) > 65535 /\ oc THEN Panicked(c, AddOverflow)
    ELSE [c EXCEPT !.pc = (c.pc + (opcode.len - 1)) % 65536]

\* the return arm with a fault: the 0x00 arm is missing
is_brk_never(op) == FALSE

\* the arm 0x00 => return of match code { ... }
is_brk(op) == op = 0

\* One iteration of the loop of CPU::run, from the core c and the values
\* code0, pcs0 that the locals code and program_counter_state hold.
\* outcome: "continue" (the loop goes on), "return" or "panic".
run_iteration(c, code0, pcs0, oc) ==
    LET fetched == mem_read(c, c.pc) IN
    IF fetched.err # NoPanic
    THEN [core |-> Panicked(c, fetched.err), code |-> code0, pcs |-> pcs0,
          outcome |-> "panic"]
    ELSE IF c.pc + 1 > 65535 /\ oc
    THEN [core |-> Panicked(c, AddOverflow), code |-> fetched.val, pcs |-> pcs0,
          outcome |-> "panic"]
    ELSE
    LET c1 == [c EXCEPT !.pc = (c.pc + 1) % 65536]
        op == fetched.val
    IN  IF op \notin DOMAIN OPCODES_MAP
        THEN [core |-> Panicked(c1, OpcodeNotFound), code |-> op, pcs |-> pcs0,
              outcome |-> "panic"]
        ELSE
        LET opcode == OPCODES_MAP[op]
            pcs == c1.pc
        IN  IF is_brk(op)
            THEN [core |-> c1, code |-> op, pcs |-> pcs, outcome |-> "return"]
            ELSE
            With(dispatch(c1, op, opcode, oc), LAMBDA c2 :
            With(IF c2.err # NoPanic THEN c2 ELSE advance(c2, pcs, opcode, oc), LAMBDA c3 :
                [core |-> c3, code |-> op, pcs |-> pcs,
                 outcome |-> IF c3.err # NoPanic THEN "panic" ELSE "continue"]))

----------------------------------------------------------------------------
(* NesPPU: the scanline clock, the control and status registers and the    *)
(* NMI latch.  VRAM, palette, OAM and the address and scroll registers     *)
(* take no part in tick, write_to_ctrl or poll_nmi_interrupt; read_status  *)
(* also resets the address and scroll write latches, which are left out.   *)

\* Option<u8>: None, Some(v)
None == << >>
Some(v) == <<v>>

\* ControlRegister: the NMI-generation bit, generate_vblank_nmi, update
GENERATE_NMI == 128
generate_vblank_nmi(ctrl) == contains(ctrl, GENERATE_NMI)
update(ctrl, value) == value % 256

\* StatusRegister: the vblank bit and its accessors, snapshot
VBLANK_STARTED == 128
is_in_vblank(st) == contains(st, VBLANK_STARTED)
set_vblank_status(st, value) == set(st, VBLANK_STARTED, value)
reset_vblank_status(st) == remove(st, VBLANK_STARTED)
snapshot(st) == st

\* NesPPU::new
ppu_new ==
    [ctrl |-> 0, status |-> 0, scanline |-> 0, cycle |-> 0, nmi_interrupt |-> None]

\* write_to_ctrl with a fault: the latch is set on every enabling write,
\* in vblank or not
write_to_ctrl_ignoring_vblank(p, value) ==
    With(update(p.ctrl, value), LAMBDA ctrl1 :
        [p EXCEPT !.ctrl = ctrl1,
                  !.nmi_interrupt =
                      IF /\ ~generate_vblank_nmi(p.ctrl)
                         /\ generate_vblank_nmi(ctrl1)
                      THEN Some(1) ELSE p.nmi_interrupt])

\* NesPPU::write_to_ctrl
write_to_ctrl(p, value) ==
    With(update(p.ctrl, value), LAMBDA ctrl1 :
        [p EXCEPT !.ctrl = ctrl1,
                  !.nmi_interrupt =
                      IF /\ ~generate_vblank_nmi(p.ctrl)
                         /\ generate_vblank_nmi(ctrl1)
                         /\ is_in_vblank(p.status)
                      THEN Some(1) ELSE p.nmi_interrupt])

\* NesPPU::read_status: the PPU after the read, and the byte returned
read_status(p) ==
    [ppu |-> [p EXCEPT !.status = reset_vblank_status(p.status)],
     ret |-> snapshot(p.status)]

\* tick with a fault: the cycle counter wraps only above 341
tick_wrap_above(p, cycles) ==
    With(p.cycle + cycles, LAMBDA cycle1 :
        IF cycle1 <= 341 THEN [ppu |-> [p EXCEPT !.cycle = cycle1], ret |-> FALSE]
        ELSE With([p EXCEPT !.cycle = cycle1 - 341, !.scanline = p.scanline + 1],
                  LAMBDA p1 :
             With(IF p1.scanline = 241 /\ generate_vblank_nmi(p1.ctrl)
                  THEN [p1 EXCEPT !.status = set_vblank_status(p1.status, TRUE),
                                  !.nmi_interrupt = Some(1)]
                  ELSE p1, LAMBDA p2 :
                 IF p2.scanline >= 262
                 THEN [ppu |-> [p2 EXCEPT !.scanline = 0,
                                          !.nmi_interrupt = None,
                                          !.status = reset_vblank_status(p2.status)],
                       ret |-> TRUE]
                 ELSE [ppu |-> p2, ret |-> FALSE])))

\* NesPPU::tick: the PPU after the tick, and the bool returned
tick(p, cycles) ==
    With(p.cycle + cycles, LAMBDA cycle1 :
        IF cycle1 < 341 THEN [ppu |-> [p EXCEPT !.cycle = cycle1], ret |-> FALSE]
        ELSE With([p EXCEPT !.cycle = cycle1 - 341, !.scanline = p.scanline + 1],
                  LAMBDA p1 :
             With(IF p1.scanline = 241 /\ generate_vblank_nmi(p1.ctrl)
                  THEN [p1 EXCEPT !.status = set_vblank_status(p1.status, TRUE),
                                  !.nmi_interrupt = Some(1)]
                  ELSE p1, LAMBDA p2 :
                 IF p2.scanline >= 262
                 THEN [ppu |-> [p2 EXCEPT !.scanline = 0,
                                          !.nmi_interrupt = None,
                                          !.status = reset_vblank_status(p2.status)],
                       ret |-> TRUE]
                 ELSE [ppu |-> p2, ret |-> FALSE])))

\* poll_nmi_interrupt with a fault: the latch is read and left as it is
poll_nmi_interrupt_peek(p) ==
    [ppu |-> p, ret |-> p.nmi_interrupt]

\* NesPPU::poll_nmi_interrupt: Option::take
poll_nmi_interrupt(p) ==
    [ppu |-> [p EXCEPT !.nmi_interrupt = None], ret |-> p.nmi_interrupt]

----------------------------------------------------------------------------
(* The state: a CPU and the caller that drives it.                         *)

VARIABLES
    register_a, register_x, register_y, status, program_counter,
    stack_pointer, memory,      \* the fields of CPU
    panic,                      \* NoPanic, or the message of the panic raised
    code,                       \* run's local: the opcode byte last fetched
    program_counter_state,      \* run's local: the PC after that fetch
    phase,                      \* "idle", "running" (inside run's loop), "panicked"
    call,                       \* the call in progress or last made, its arguments and result
    program,                    \* the Vec<u8> the caller passes to load / load_and_run
    accesses,                   \* the caller's direct accesses so far
    runs,                       \* the runs started so far
    ppu                         \* the NesPPU the CPU's NMI line comes from

cpu_vars == <<register_a, register_x, register_y, status, program_counter,
              stack_pointer, memory, panic>>
run_locals == <<code, program_counter_state>>
vars == <<register_a, register_x, register_y, status, program_counter,
          stack_pointer, memory, panic, code, program_counter_state, phase,
          call, program, accesses, runs, ppu>>

\* the CPU as a core record, and the assignment of a core to the CPU
Core ==
    [a |-> register_a, x |-> register_x, y |-> register_y, p |-> status,
     pc |-> program_counter, sp |-> stack_pointer, mem |-> memory, err |-> panic]

Commit(c) ==
    /\ register_a' = c.a
    /\ register_x' = c.x
    /\ register_y' = c.y
    /\ status' = c.p
    /\ program_counter' = c.pc
    /\ stack_pointer' = c.sp
    /\ memory' = c.mem
    /\ panic' = c.err

Call(name, addr, data, ret) == [name |-> name, addr |-> addr, data |-> data, ret |-> ret]

PhaseAfter(c) == IF c.err # NoPanic THEN "panicked" ELSE "idle"

----------------------------------------------------------------------------
(* Bounds and inputs *)

\* direct accesses (mem_write, mem_read, a field assignment) per behaviour
MaxAccesses == 1
\* runs (run, load_and_run) per behaviour
MaxRuns == 2

\* one instruction, its operand bytes and a BRK
Instruction(op, lo, hi) ==
    IF op \notin DOMAIN OPCODES_MAP THEN <<op, lo, 0>>
    ELSE CASE OPCODES_MAP[op].len = 1 -> <<op, 0>>
           [] OPCODES_MAP[op].len = 2 -> <<op, lo, 0>>
           [] OTHER -> <<op, lo, hi, 0>>

\* the programs of tests.rs and of the specification's scenarios
TestPrograms ==
    { <<169, 5, 0>>, <<170, 0>>, <<169, 192, 170, 232, 0>>, <<232, 232, 0>>,
      <<165, 16, 0>>, <<169, 0, 0>>, <<169, 10, 170, 0>>,
      <<169, 255, 170, 232, 232, 0>>, << >> }

\* opcode bytes with no table entry: LDX #, LSR A and an undefined byte
UntabledOpcodes == {162, 74, 2}

\* every table opcode (and the untabled ones) alone, with operand $0010
InstructionPrograms ==
    { Instruction(op, 16, 0) : op \in (DOMAIN OPCODES_MAP \ {0}) \cup UntabledOpcodes }

\* a program of the given length whose non-zero bytes are the pairs <<index, byte>>
Sparse(len, pairs) ==
    [len |-> len,
     cells |-> [i \in {q[1] : q \in pairs} |-> (CHOOSE q \in pairs : q[1] = i)[2]]]

\* programs that reach the top of the memory array
LongPrograms ==
    { Sparse(32764, {<<0, 169>>, <<1, 5>>, <<32763, 17>>}),
      Sparse(32765, {<<0, 169>>, <<32764, 17>>}),
      Sparse(32766, {<<32764, 17>>, <<32765, 34>>}),
      Sparse(32767, {<<0, 232>>, <<32766, 51>>}),
      Sparse(32768, {<<0, 232>>}) }

\* programs that jump or call: to the byte after the opcode ($8001), and elsewhere
ControlPrograms ==
    { <<76, 1, 128, 0>>, <<76, 4, 128, 0, 232, 0>>,
      <<108, 3, 128, 1, 128>>, <<108, 5, 128, 0, 0, 7, 128, 232, 0>>,
      <<32, 1, 128, 0>>, <<32, 4, 128, 0, 232, 0>> }

Programs ==
    {Vec(bytes) : bytes \in TestPrograms \cup InstructionPrograms \cup ControlPrograms}
        \cup LongPrograms

WriteAddrs == {16, 65534, 65535}
WriteData == {85}
ReadAddrs == {16, 65533, 65535}
AssignA == {10}
AssignX == {255}
AssignSP == {0}

----------------------------------------------------------------------------
(* The operations *)

Init ==
    /\ register_a = new.a
    /\ register_x = new.x
    /\ register_y = new.y
    /\ status = new.p
    /\ program_counter = new.pc
    /\ stack_pointer = new.sp
    /\ memory = new.mem
    /\ panic = new.err
    /\ code = 0
    /\ program_counter_state = 0
    /\ phase = "idle"
    /\ call = Call("new", 0, 0, 0)
    /\ program \in Programs
    /\ accesses = 0
    /\ runs = 0
    /\ ppu = ppu_new

\* cpu.load(program)
Load ==
    /\ UNCHANGED ppu
    /\ phase = "idle"
    /\ \E c \in {load(Core, program, TRUE)} :
         /\ Commit(c)
         /\ phase' = PhaseAfter(c)
    /\ call' = Call("load", 0, 0, 0)
    /\ UNCHANGED <<code, program_counter_state, program, accesses, runs>>

\* cpu.reset()
Reset ==
    /\ UNCHANGED ppu
    /\ phase = "idle"
    /\ \E c \in {reset(Core, TRUE)} :
         /\ Commit(c)
         /\ phase' = PhaseAfter(c)
    /\ call' = Call("reset", 0, 0, 0)
    /\ UNCHANGED <<code, program_counter_state, program, accesses, runs>>

\* cpu.run(): the call enters the loop
Run ==
    /\ UNCHANGED ppu
    /\ phase = "idle"
    /\ runs < MaxRuns
    /\ phase' = "running"
    /\ runs' = runs + 1
    /\ call' = Call("run", 0, 0, 0)
    /\ UNCHANGED <<cpu_vars, code, program_counter_state, program, accesses>>

\* CPU::load_and_run: self.load(program); self.reset(); and run's loop is entered
LoadAndRun ==
    /\ UNCHANGED ppu
    /\ phase = "idle"
    /\ runs < MaxRuns
    /\ \E c1 \in {load(Core, program, TRUE)} :
       \E c2 \in {IF c1.err # NoPanic THEN c1 ELSE reset(c1, TRUE)} :
         /\ Commit(c2)
         /\ phase' = IF c2.err # NoPanic THEN "panicked" ELSE "running"
    /\ runs' = runs + 1
    /\ call' = Call("load_and_run", 0, 0, 0)
    /\ UNCHANGED <<code, program_counter_state, program, accesses>>

\* one iteration of the loop of CPU::run
RunLoop ==
    /\ UNCHANGED ppu
    /\ phase = "running"
    /\ \E oc \in BOOLEAN :
       \E r \in {run_iteration(Core, code, program_counter_state, oc)} :
         /\ Commit(r.core)
         /\ code' = r.code
         /\ program_counter_state' = r.pcs
         /\ phase' = CASE r.outcome = "continue" -> "running"
                       [] r.outcome = "return" -> "idle"
                       [] OTHER -> "panicked"
    /\ UNCHANGED <<call, program, accesses, runs>>

\* cpu.mem_write(addr, data) by the caller
MemWrite ==
    /\ UNCHANGED ppu
    /\ phase = "idle"
    /\ accesses < MaxAccesses
    /\ \E addr \in WriteAddrs, data \in WriteData :
       \E c \in {mem_write(Core, addr, data)} :
         /\ Commit(c)
         /\ phase' = PhaseAfter(c)
         /\ call' = Call("mem_write", addr, data, 0)
    /\ accesses' = accesses + 1
    /\ UNCHANGED <<code, program_counter_state, program, runs>>

\* cpu.mem_read(addr) by the caller
MemRead ==
    /\ UNCHANGED ppu
    /\ phase = "idle"
    /\ accesses < MaxAccesses
    /\ \E addr \in ReadAddrs :
       \E r \in {mem_read(Core, addr)} :
         /\ panic' = r.err
         /\ phase' = IF r.err # NoPanic THEN "panicked" ELSE "idle"
         /\ call' = Call("mem_read", addr, 0, r.val)
    /\ accesses' = accesses + 1
    /\ UNCHANGED <<register_a, register_x, register_y, status, program_counter,
                   stack_pointer, memory, code, program_counter_state, program, runs>>

\* the caller assigns a public field: cpu.register_a = v, cpu.register_x = v,
\* cpu.stack_pointer = v
Assign ==
    /\ UNCHANGED ppu
    /\ phase = "idle"
    /\ accesses < MaxAccesses
    /\ \/ /\ \E v \in AssignA : register_a' = v
          /\ call' = Call("register_a", 0, 0, 0)
          /\ UNCHANGED <<register_x, stack_pointer>>
       \/ /\ \E v \in AssignX : register_x' = v
          /\ call' = Call("register_x", 0, 0, 0)
          /\ UNCHANGED <<register_a, stack_pointer>>
       \/ /\ \E v \in AssignSP : stack_pointer' = v
          /\ call' = Call("stack_pointer", 0, 0, 0)
          /\ UNCHANGED <<register_a, register_x>>
    /\ accesses' = accesses + 1
    /\ UNCHANGED <<register_y, status, program_counter, memory, panic, code,
                   program_counter_state, phase, program, runs>>

Next ==
    \/ Load
    \/ Reset
    \/ Run
    \/ LoadAndRun
    \/ RunLoop
    \/ MemWrite
    \/ MemRead
    \/ Assign

Spec == Init /\ [][Next]_vars

----------------------------------------------------------------------------
(* One-instruction executions.  All fields of CPU are public and mem_write *)
(* is public, so run() can be entered with any registers, any status, any  *)
(* program counter and any memory; SpecExec starts inside run's loop with  *)
(* one instruction placed at the program counter.                          *)

\* a cell of the array set to value; 0xFFFF is not a cell of the array
Place(m, addr, value) == IF addr < MEM_SIZE THEN Poke(m, addr, value) ELSE m

\* the opcodes placed: every table entry but BRK, and the untabled ones
ExecOpcodes == (DOMAIN OPCODES_MAP \ {0}) \cup UntabledOpcodes
\* the addresses of the opcode byte: $0600, and the top of the array
ExecAddrs == {1536, 65533}
\* the operand bytes <<lo, hi>>: $0010, $0601 (the byte after an opcode at
\* $0600, which holds $01 $06 itself) and $30FF (a pointer at a page end)
ExecOperands == { <<16, 0>>, <<1, 6>>, <<255, 48>> }
\* the memory around the instruction: a zero-page pointer $0320 at $10, and
\* the cells of the JMP ($30FF) scenario
ExecBackground ==
    Poke(Poke(Poke(Poke(Poke(EmptyMemory, 16, 32), 17, 3), 12543, 64), 12288, 128), 12544, 80)
\* the registers, the status and the stack pointer on entry
ExecRegisters ==
    { [a |-> 0, x |-> 0, y |-> 0, p |-> 36, sp |-> 253],
      [a |-> 128, x |-> 255, y |-> 1, p |-> 231, sp |-> 0],
      [a |-> 85, x |-> 1, y |-> 255, p |-> 37, sp |-> 1],
      [a |-> 255, x |-> 16, y |-> 16, p |-> 164, sp |-> 255] }

InitExec ==
    \E op \in ExecOpcodes, addr \in ExecAddrs, operand \in ExecOperands,
       regs \in ExecRegisters :
        /\ register_a = regs.a
        /\ register_x = regs.x
        /\ register_y = regs.y
        /\ status = regs.p
        /\ program_counter = addr
        /\ stack_pointer = regs.sp
        /\ memory = Place(Place(Place(ExecBackground, addr, op), addr + 1, operand[1]),
                          addr + 2, operand[2])
        /\ panic = NoPanic
        /\ code = 0
        /\ program_counter_state = 0
        /\ phase = "running"
        /\ call = Call("run", 0, 0, 0)
        /\ program = Vec(<< >>)
        /\ accesses = 0
        /\ runs = 1
        /\ ppu = ppu_new

NextExec == RunLoop

SpecExec == InitExec /\ [][NextExec]_vars

----------------------------------------------------------------------------
(* Properties *)

\* the byte at the program counter, the one the next iteration fetches
FetchedByte == Peek(memory, program_counter)
\* the little-endian word after the opcode byte
OperandWord == Peek(memory, program_counter + 1) + 256 * Peek(memory, program_counter + 2)
\* the table's control-flow and return mnemonics
ControlMnemonics ==
    {"BCC", "BCS", "BEQ", "BNE", "BMI", "BPL", "BVC", "BVS", "JMP", "JSR", "BRK"}
\* the opcode bytes of the table that are not branches, jumps, calls or BRK
StraightOpcodes == {op \in DOMAIN OPCODES_MAP : OPCODES_MAP[op].mnemonic \notin ControlMnemonics}
RegistersUnchanged ==
    /\ register_a' = register_a
    /\ register_x' = register_x
    /\ register_y' = register_y
    /\ status' = status
\* every cell outside except keeps its value
MemoryUnchangedExcept(except) ==
    \A x \in ((DOMAIN memory) \cup (DOMAIN memory')) \ except :
        Peek(memory', x) = Peek(memory, x)

\* C1: at every instruction boundary of run (the loop about to fetch, or
\* returned), entered by load_and_run (which resets) or by run after new or
\* reset, bit 5 of the status register is set.
C1_Bit5SetAtBoundary ==
    (call.name \in {"load_and_run", "run"} /\ phase \in {"running", "idle"})
        => Bit(status, 5) = 1

\* an instruction (LDA #$00) has completed after the reset and changed the status
C1_Witness ==
    /\ call.name = "load_and_run"
    /\ phase = "running"
    /\ code = 169
    /\ status = 38

\* C2: an iteration that completes an opcode that is no branch, jump, call or
\* BRK fetched that opcode from the program counter and leaves the program
\* counter at the opcode's address plus its table length (in 16 bits).
C2_PcAdvancesByLength ==
    [][(phase = "running" /\ phase' = "running" /\ FetchedByte \in StraightOpcodes)
        => /\ code' = FetchedByte
           /\ program_counter' =
                  (program_counter + OPCODES_MAP[FetchedByte].len) % 65536]_vars

\* LDA absolute (3 bytes) at $0600 has completed
C2_Witness ==
    /\ phase = "running"
    /\ code = 173
    /\ program_counter_state = 1537
    /\ program_counter = 1539

\* C3: reset() from an idle CPU sets A = X = Y = 0, P = 0b00100100, SP = 0xFD,
\* PC = the little-endian word at 0xFFFC/0xFFFD, and changes no memory cell.
C3_ResetPostcondition ==
    [][(phase = "idle" /\ call'.name = "reset")
        => /\ register_a' = 0
           /\ register_x' = 0
           /\ register_y' = 0
           /\ status' = 36
           /\ stack_pointer' = 253
           /\ program_counter' = Peek(memory, 65532) + 256 * Peek(memory, 65533)
           /\ memory' = memory
           /\ panic' = NoPanic]_vars

\* reset() was called after LDA #$05; BRK had run and left A = 5, PC = $8003
C3_Witness ==
    /\ call.name = "reset"
    /\ program = Vec(<<169, 5, 0>>)
    /\ program_counter_state = 32771
    /\ program_counter = PROGRAM_START
    /\ register_a = 0

\* the addresses of the program's bytes in memory
ProgramCells == {PROGRAM_START + i : i \in DOMAIN program.cells}
\* the cells a load step may have changed or must have set
LoadSupport == (DOMAIN memory) \cup (DOMAIN memory') \cup ProgramCells \cup {65532, 65533}
InProgram(x) == x >= PROGRAM_START /\ x < PROGRAM_START + program.len

\* C4 as stated: after an accepted load, memory[0x8000 + i] = program[i] for
\* every i < len, memory[0xFFFC] = 0x00, memory[0xFFFD] = 0x80 and every other
\* cell keeps its value.
C4_LoadAsClaimed ==
    [][(phase = "idle" /\ call'.name = "load" /\ panic' = NoPanic)
        => /\ \A x \in LoadSupport :
                IF InProgram(x) THEN Peek(memory', x) = ProgramByte(program, x - PROGRAM_START)
                ELSE IF x \in {65532, 65533} THEN TRUE
                ELSE Peek(memory', x) = Peek(memory, x)
           /\ Peek(memory', 65532) = 0
           /\ Peek(memory', 65533) = 128]_vars

\* C4 amended: the same, for the program bytes that do not lie on the reset
\* vector; 0xFFFC and 0xFFFD hold 0x00 and 0x80 whatever the program.
C4_LoadOutsideVector ==
    [][(phase = "idle" /\ call'.name = "load" /\ panic' = NoPanic)
        => /\ \A x \in LoadSupport \ {65532, 65533} :
                IF InProgram(x) THEN Peek(memory', x) = ProgramByte(program, x - PROGRAM_START)
                ELSE Peek(memory', x) = Peek(memory, x)
           /\ Peek(memory', 65532) = 0
           /\ Peek(memory', 65533) = 128]_vars

\* a program that covers the reset vector was loaded
C4_Witness ==
    /\ call.name = "load"
    /\ panic = NoPanic
    /\ program.len > 32764
    /\ Peek(memory, 65533) = 128

\* C5: mem_read and mem_write succeed at every address, and a read after a
\* write returns the byte written.
C5_EveryAddressAccessible ==
    (call.name \in {"mem_read", "mem_write"})
        => /\ panic = NoPanic
           /\ call.name = "mem_write" => mem_read(Core, call.addr) = Result(call.data)

DecodeErrorAt(pc, op) ==
    run_iteration([Core EXCEPT !.pc = pc, !.mem = Poke(memory, pc, op)],
                  code, program_counter_state, TRUE).core.err

\* C7: an opcode byte with no table entry ends run with an error that carries
\* the byte and the program counter (another byte or another address gives
\* another error), and A, X, Y, P, SP and memory are unchanged.
C7_DecodeErrorCarriesByteAndPc ==
    [][(phase = "running" /\ program_counter < MEM_SIZE
            /\ FetchedByte \notin DOMAIN OPCODES_MAP)
        => /\ phase' = "panicked"
           /\ RegistersUnchanged
           /\ stack_pointer' = stack_pointer
           /\ memory' = memory
           /\ \A pc \in {program_counter, 1536}, op \in UntabledOpcodes :
                <<pc, op>> # <<program_counter, FetchedByte>>
                    => DecodeErrorAt(pc, op) # panic']_vars

\* C8: JMP absolute leaves the program counter at its operand, whatever the
\* operand, and changes nothing else.
C8_JmpAbsoluteSetsPc ==
    [][(phase = "running" /\ FetchedByte = 76 /\ program_counter + 2 < MEM_SIZE)
        => /\ phase' = "running"
           /\ program_counter' = OperandWord
           /\ RegistersUnchanged
           /\ stack_pointer' = stack_pointer
           /\ memory' = memory]_vars

\* the address JMP indirect reads the high byte from
HiAddr(base) == IF base % 256 = 255 THEN base - 255 ELSE base + 1

\* C9: JMP indirect leaves the program counter at
\* read(base) | read(hi_addr) << 8, whatever the pointer and its content.
C9_JmpIndirectSetsPc ==
    [][(phase = "running" /\ FetchedByte = 108 /\ program_counter + 2 < MEM_SIZE
            /\ OperandWord < MEM_SIZE /\ HiAddr(OperandWord) < MEM_SIZE)
        => /\ phase' = "running"
           /\ program_counter' =
                  Peek(memory, OperandWord) + 256 * Peek(memory, HiAddr(OperandWord))]_vars

\* C10: JSR at a with stack pointer s and target t writes the high byte of
\* a + 2 at 0x0100 + s and the low byte at 0x0100 + ((s - 1) mod 256), leaves
\* SP = (s - 2) mod 256 and PC = t, and changes nothing else.
C10_JsrPushesAndJumps ==
    [][(phase = "running" /\ FetchedByte = 32 /\ program_counter + 2 < MEM_SIZE)
        => /\ phase' = "running"
           /\ Peek(memory', 256 + stack_pointer) = (program_counter + 2) \div 256
           /\ Peek(memory', 256 + ((stack_pointer + 255) % 256)) = (program_counter + 2) % 256
           /\ stack_pointer' = (stack_pointer + 254) % 256
           /\ program_counter' = OperandWord
           /\ RegistersUnchanged
           /\ MemoryUnchangedExcept({256 + stack_pointer,
                                     256 + ((stack_pointer + 255) % 256)})]_vars

----------------------------------------------------------------------------
(* The stack helpers.  stack_push_u16 and stack_pop_u16 are private to     *)
(* cpu.rs; SpecStack applies them to a CPU whose stack pointer and the     *)
(* value pushed are drawn from the sets below.                             *)

\* the stack pointers on entry: both ends of the page, and the middle
StackPointers == {0, 1, 2, 127, 253, 254, 255}
\* the 16-bit values pushed
StackValues == {0, 1, 255, 256, 4660, 32768, 65280, 65535}
\* the memory on entry: cells at both ends of page 1 and next to them
StackBackground ==
    Poke(Poke(Poke(Poke(EmptyMemory, 255, 170), 256, 187), 511, 204), 512, 221)

InitStack ==
    /\ register_a = new.a
    /\ register_x = new.x
    /\ register_y = new.y
    /\ status = new.p
    /\ program_counter = new.pc
    /\ stack_pointer \in StackPointers
    /\ memory = StackBackground
    /\ panic = NoPanic
    /\ code = 0
    /\ program_counter_state = 0
    /\ phase = "idle"
    /\ \E v \in StackValues : call = Call("new", stack_pointer, v, 0)
    /\ program = Vec(<< >>)
    /\ accesses = 0
    /\ runs = 0
    /\ ppu = ppu_new

\* self.stack_push_u16(v); call.addr keeps the stack pointer of entry
StackPushU16 ==
    /\ UNCHANGED ppu
    /\ phase = "idle"
    /\ call.name = "new"
    /\ \E c \in {stack_push_u16(Core, call.data)} :
         /\ Commit(c)
         /\ phase' = PhaseAfter(c)
    /\ call' = [call EXCEPT !.name = "stack_push_u16"]
    /\ UNCHANGED <<code, program_counter_state, program, accesses, runs>>

\* self.stack_pop_u16() after the push; call.ret is the value returned
StackPopU16 ==
    /\ UNCHANGED ppu
    /\ phase = "idle"
    /\ call.name = "stack_push_u16"
    /\ \E r \in {stack_pop_u16(Core)} :
         /\ Commit(r.core)
         /\ phase' = PhaseAfter(r.core)
         /\ call' = Call("stack_pop_u16", call.addr, call.data, r.val)
    /\ UNCHANGED <<code, program_counter_state, program, accesses, runs>>

NextStack ==
    \/ StackPushU16
    \/ StackPopU16

SpecStack == InitStack /\ [][NextStack]_vars

\* C11: stack_push_u16(v) then stack_pop_u16() returns v, restores SP to s,
\* raises no error, and no cell outside 0x0100..0x01FF changes (after the
\* push or after the pop), for every v and s, s = 0x00 and 0x01 included.
C11_PushPopRoundTrip ==
    /\ call.name \in {"stack_push_u16", "stack_pop_u16"}
        => /\ panic = NoPanic
           /\ \A x \in ((DOMAIN memory) \cup (DOMAIN StackBackground)) \ (256 .. 511) :
                Peek(memory, x) = Peek(StackBackground, x)
    /\ call.name = "stack_push_u16" => stack_pointer = (call.addr + 254) % 256
    /\ call.name = "stack_pop_u16"
        => /\ call.ret = call.data
           /\ stack_pointer = call.addr

\* 0x1234 pushed and popped with s = 0x00: the bytes went to 0x0100 and
\* 0x01FF, the stack pointer having wrapped
C11_Witness ==
    /\ call.name = "stack_pop_u16"
    /\ call.addr = 0
    /\ call.ret = 4660
    /\ Peek(memory, 256) = 18
    /\ Peek(memory, 511) = 52

----------------------------------------------------------------------------
(* Branches *)

BranchOpcodes == {144, 176, 240, 208, 48, 16, 80, 112}
\* the flag test of the branch opcode op on the status p: BCC, BCS (bit 0),
\* BEQ, BNE (bit 1), BMI, BPL (bit 7), BVC, BVS (bit 6)
BranchTaken(op, p) ==
    CASE op = 144 -> Bit(p, 0) = 0
      [] op = 176 -> Bit(p, 0) = 1
      [] op = 240 -> Bit(p, 1) = 1
      [] op = 208 -> Bit(p, 1) = 0
      [] op = 48 -> Bit(p, 7) = 1
      [] op = 16 -> Bit(p, 7) = 0
      [] op = 80 -> Bit(p, 6) = 0
      [] OTHER -> Bit(p, 6) = 1
\* a byte as a two's-complement offset
Signed(o) == IF o < 128 THEN o ELSE o - 256

\* C12: a branch at a with offset byte o whose flag test passes completes
\* with PC = (a + 2 + signed(o)) mod 2^16, and the run continues.
C12_TakenBranchSetsPc ==
    [][(phase = "running" /\ FetchedByte \in BranchOpcodes
            /\ BranchTaken(FetchedByte, status) /\ program_counter + 1 < MEM_SIZE)
        => /\ phase' = "running"
           /\ program_counter' =
                  (program_counter + 2 + Signed(Peek(memory, program_counter + 1)) + 65536)
                      % 65536]_vars

\* C13: a branch at a whose flag test fails completes (whenever a + 2 fits
\* the 16-bit PC) and leaves A, X, Y, P, SP and memory unchanged and
\* PC = a + 2 (in 16 bits).
C13_UntakenBranchSkipsOffset ==
    [][(phase = "running" /\ FetchedByte \in BranchOpcodes
            /\ ~BranchTaken(FetchedByte, status))
        => /\ (program_counter + 2 < 65536) => phase' = "running"
           /\ (phase' = "running")
                  => /\ RegistersUnchanged
                     /\ stack_pointer' = stack_pointer
                     /\ memory' = memory
                     /\ program_counter' = (program_counter + 2) % 65536]_vars

\* BCS at $0600 with CARRY clear has completed
C13_Witness ==
    /\ phase = "running"
    /\ code = 176
    /\ status = 36
    /\ program_counter_state = 1537
    /\ program_counter = 1538

----------------------------------------------------------------------------
(* One-instruction executions over register and operand values.            *)
(* SpecValues starts inside run's loop, as SpecExec does, with one         *)
(* instruction at $0600 whose operand holds m: the operand byte itself     *)
(* (Immediate), the cell $10 (ZeroPage) or the cell ($FF + X) mod 256      *)
(* (ZeroPage_X).                                                           *)

ValueModes == {"Immediate", "ZeroPage", "ZeroPage_X"}
\* the opcodes placed: the table's entries of these modes, and the
\* register-only TAX, INX, INY, DEX, DEY
ValueOpcodes ==
    {op \in DOMAIN OPCODES_MAP :
        \/ OPCODES_MAP[op].mode \in ValueModes
        \/ OPCODES_MAP[op].mnemonic \in {"TAX", "INX", "INY", "DEX", "DEY"}}
\* the register value r on entry: A = Y = r and X = 255 - r
RegisterValues == {0, 1, 2, 63, 64, 127, 128, 129, 191, 192, 254, 255}
\* the operand value m
OperandValues == {0, 1, 64, 65, 127, 128, 129, 192, 255}
\* the status on entry: C, Z, V, N all clear, and all set
StatusValues == {36, 231}

\* the operand byte that follows the opcode, and the cell that holds m
ValueOperandByte(mode, m) ==
    CASE mode = "Immediate" -> m
      [] mode = "ZeroPage" -> 16
      [] OTHER -> 255
ValueOperandCell(mode, x) ==
    CASE mode = "Immediate" -> 1537
      [] mode = "ZeroPage" -> 16
      [] OTHER -> (255 + x) % 256

InitValues ==
    \E op \in ValueOpcodes, r \in RegisterValues, m \in OperandValues,
       p \in StatusValues :
        /\ register_a = r
        /\ register_x = 255 - r
        /\ register_y = r
        /\ status = p
        /\ program_counter = 1536
        /\ stack_pointer = STACK_RESET
        /\ memory = Place(Place(Place(EmptyMemory, 1536, op),
                                1537, ValueOperandByte(OPCODES_MAP[op].mode, m)),
                          ValueOperandCell(OPCODES_MAP[op].mode, 255 - r), m)
        /\ panic = NoPanic
        /\ code = 0
        /\ program_counter_state = 0
        /\ phase = "running"
        /\ call = Call("run", 0, 0, 0)
        /\ program = Vec(<< >>)
        /\ accesses = 0
        /\ runs = 1
        /\ ppu = ppu_new

NextValues == RunLoop

SpecValues == InitValues /\ [][NextValues]_vars

\* the mnemonic of the byte at the PC ("" when the table has no entry)
FetchedMnemonic ==
    IF FetchedByte \in DOMAIN OPCODES_MAP THEN OPCODES_MAP[FetchedByte].mnemonic ELSE ""
\* the addressing mode of the byte at the PC
FetchedMode ==
    IF FetchedByte \in DOMAIN OPCODES_MAP THEN OPCODES_MAP[FetchedByte].mode
    ELSE "NoneAddressing"
\* the effective address and the value of the operand of the instruction at
\* the PC, resolved as the handler resolves them: after the fetch, PC + 1
Operand ==
    read_operand([Core EXCEPT !.pc = (program_counter + 1) % 65536], FetchedMode, FALSE)
\* the step executes the instruction at the PC to completion
Completes == phase = "running" /\ phase' = "running"

\* C14: after every executed LDA, TAX, AND, EOR, ASL on memory, INC, DEC,
\* INX, INY, DEX, DEY the destination holds the 8-bit result, ZERO is set
\* iff the result is 0 and NEGATIVE is set iff bit 7 of the result is 1.
C14_Mnemonics ==
    {"LDA", "TAX", "AND", "EOR", "ASL", "INC", "DEC", "INX", "INY", "DEX", "DEY"}
C14_Result ==
    CASE FetchedMnemonic = "LDA" -> Operand.val
      [] FetchedMnemonic = "TAX" -> register_a
      [] FetchedMnemonic = "AND" -> BitAnd(register_a, Operand.val)
      [] FetchedMnemonic = "EOR" -> BitXor(register_a, Operand.val)
      [] FetchedMnemonic = "ASL" -> (2 * Operand.val) % 256
      [] FetchedMnemonic = "INC" -> (Operand.val + 1) % 256
      [] FetchedMnemonic = "DEC" -> (Operand.val + 255) % 256
      [] FetchedMnemonic = "INX" -> (register_x + 1) % 256
      [] FetchedMnemonic = "INY" -> (register_y + 1) % 256
      [] FetchedMnemonic = "DEX" -> (register_x + 255) % 256
      [] OTHER -> (register_y + 255) % 256
C14_Destination ==
    CASE FetchedMnemonic \in {"LDA", "AND", "EOR"} -> register_a'
      [] FetchedMnemonic \in {"TAX", "INX", "DEX"} -> register_x'
      [] FetchedMnemonic \in {"INY", "DEY"} -> register_y'
      [] OTHER -> Peek(memory', Operand.addr)
C14_ZeroNegativeFollowResult ==
    [][(Completes /\ FetchedMnemonic \in C14_Mnemonics /\ FetchedByte # 10)
        => /\ C14_Destination = C14_Result
           /\ (Bit(status', 1) = 1) <=> (C14_Result = 0)
           /\ Bit(status', 7) = Bit(C14_Result, 7)]_vars

\* DEC $10 has turned the cell from 0 to $FF with ZERO and NEGATIVE set
\* before: ZERO is cleared and NEGATIVE stays set
C14_Witness ==
    /\ phase = "running"
    /\ code = 198
    /\ program_counter = 1538
    /\ Peek(memory, 16) = 255
    /\ status = 229

\* C15: after ASL on a memory operand with old value v the operand cell
\* holds (2 * v) mod 256 and CARRY equals bit 7 of v, whatever CARRY was.
C15_AslCarryFromBit7 ==
    [][(Completes /\ FetchedMnemonic = "ASL" /\ FetchedByte # 10)
        => /\ Peek(memory', Operand.addr) = (2 * Operand.val) % 256
           /\ Bit(status', 0) = Bit(Operand.val, 7)]_vars

\* C16: the accumulator form of ASL (opcode $0A) completes without error,
\* shifts A left by one bit, leaves memory unchanged and advances the PC by 1.
C16_AslAccumulator ==
    [][(phase = "running" /\ FetchedByte = 10 /\ program_counter + 1 < MEM_SIZE)
        => /\ phase' = "running"
           /\ panic' = NoPanic
           /\ register_a' = (2 * register_a) % 256
           /\ memory' = memory
           /\ program_counter' = program_counter + 1]_vars

\* the register CMP, CPX or CPY at the PC compares
ComparedRegister ==
    CASE FetchedMnemonic = "CMP" -> register_a
      [] FetchedMnemonic = "CPX" -> register_x
      [] OTHER -> register_y

\* C17: CMP, CPX and CPY with register value r and operand m set CARRY iff
\* r >= m, ZERO iff r = m and NEGATIVE to bit 7 of (r - m) mod 256, and
\* leave A, X, Y, SP, OVERFLOW and memory unchanged.
C17_CompareFlags ==
    [][(Completes /\ FetchedMnemonic \in {"CMP", "CPX", "CPY"})
        => /\ (Bit(status', 0) = 1) <=> (ComparedRegister >= Operand.val)
           /\ (Bit(status', 1) = 1) <=> (ComparedRegister = Operand.val)
           /\ Bit(status', 7) = Bit((ComparedRegister + 256 - Operand.val) % 256, 7)
           /\ Bit(status', 6) = Bit(status, 6)
           /\ register_a' = register_a
           /\ register_x' = register_x
           /\ register_y' = register_y
           /\ stack_pointer' = stack_pointer
           /\ memory' = memory]_vars

\* CPX #$41 with X = $40 and every flag set before: CARRY and ZERO are
\* cleared, NEGATIVE and OVERFLOW stay set
C17_Witness ==
    /\ phase = "running"
    /\ code = 224
    /\ program_counter = 1538
    /\ register_x = 64
    /\ Peek(memory, 1537) = 65
    /\ status = 228

\* C18: BIT with accumulator a and operand m sets ZERO iff (a AND m) = 0,
\* NEGATIVE to bit 7 of m and OVERFLOW to bit 6 of m, and leaves A, X, Y,
\* SP, CARRY and memory unchanged.
C18_BitTest ==
    [][(Completes /\ FetchedMnemonic = "BIT")
        => /\ (Bit(status', 1) = 1) <=> (BitAnd(register_a, Operand.val) = 0)
           /\ Bit(status', 7) = Bit(Operand.val, 7)
           /\ Bit(status', 6) = Bit(Operand.val, 6)
           /\ Bit(status', 0) = Bit(status, 0)
           /\ register_a' = register_a
           /\ register_x' = register_x
           /\ register_y' = register_y
           /\ stack_pointer' = stack_pointer
           /\ memory' = memory]_vars

\* BIT $10 with A = $3F and the cell $C0, every flag clear before: ZERO,
\* NEGATIVE and OVERFLOW are set, CARRY stays clear
C18_Witness ==
    /\ phase = "running"
    /\ code = 36
    /\ program_counter = 1538
    /\ register_a = 63
    /\ Peek(memory, 16) = 192
    /\ status = 230

\* the effective address of the instruction at the PC, resolved as the
\* handler resolves it: after the fetch, PC + 1
EffectiveAddress ==
    get_operand_address([Core EXCEPT !.pc = (program_counter + 1) % 65536],
                        FetchedMode, FALSE).val

\* C19: STA in each of its addressing modes writes A to the effective
\* address and changes nothing else: P, A, X, Y, SP and every other memory
\* cell keep their values.
C19_StaWritesOnlyTarget ==
    [][(Completes /\ FetchedMnemonic = "STA")
        => /\ Peek(memory', EffectiveAddress) = register_a
           /\ MemoryUnchangedExcept({EffectiveAddress})
           /\ RegistersUnchanged
           /\ stack_pointer' = stack_pointer]_vars

\* STA $0010,X with A = $55 and X = 1 has written $55 over the $03 at $0011
C19_Witness ==
    /\ phase = "running"
    /\ code = 157
    /\ program_counter = 1539
    /\ register_a = 85
    /\ status = 37
    /\ Peek(memory, 17) = 85
    /\ Peek(memory, 16) = 32

\* the address get_operand_address resolves for mode after the fetch
ResolvedAddress(mode) ==
    get_operand_address([Core EXCEPT !.pc = (program_counter + 1) % 65536], mode, FALSE)

\* C20: for ZeroPage_X and ZeroPage_Y the effective address is (operand
\* byte + index register) mod 256, always within $0000..$00FF, and an
\* executed LDA zp,X loads the byte of that cell.
C20_ZeroPageIndexWraps ==
    [][(phase = "running" /\ program_counter + 1 < MEM_SIZE)
        => /\ ResolvedAddress("ZeroPage_X") =
                  Result((Peek(memory, program_counter + 1) + register_x) % 256)
           /\ ResolvedAddress("ZeroPage_Y") =
                  Result((Peek(memory, program_counter + 1) + register_y) % 256)
           /\ ResolvedAddress("ZeroPage_X").val \in 0..255
           /\ ResolvedAddress("ZeroPage_Y").val \in 0..255
           /\ (phase' = "running" /\ FetchedByte = 181)
                  => register_a' = Peek(memory, (Peek(memory, program_counter + 1)
                                                 + register_x) % 256)]_vars

\* LDA $FF,X with X = 1 has loaded the $81 of cell $0000
C20_Witness ==
    /\ phase = "running"
    /\ code = 181
    /\ program_counter = 1538
    /\ register_x = 1
    /\ Peek(memory, 1537) = 255
    /\ Peek(memory, 0) = 129
    /\ Peek(memory, 256) = 0
    /\ register_a = 129

----------------------------------------------------------------------------
(* One-instruction executions of the indirect modes.                       *)
(* SpecIndirect starts inside run's loop with one Indirect_X or Indirect_Y *)
(* instruction at $0600 over a zero page whose ends hold pointers.         *)

IndirectOpcodes ==
    {op \in DOMAIN OPCODES_MAP : OPCODES_MAP[op].mode \in {"Indirect_X", "Indirect_Y"}}
\* the operand byte after the opcode
IndirectOperands == {0, 16, 254, 255}
\* the index registers on entry
IndirectX == {0, 1, 2, 255}
IndirectY == {0, 1, 255}
\* the zero page: $00..$02 = 03 04 05, $10/$11 = F0 FF (the pointer $FFF0),
\* $FE/$FF = 10 20; the cells above it, $0100/$0101 = 07 08; and the bytes
\* at $0320, $0321, $041F, $0720 that the pointers $0320 and $0720 reach
IndirectBackground ==
    Poke(Poke(Poke(Poke(Poke(Poke(Poke(Poke(Poke(Poke(Poke(Poke(Poke(EmptyMemory,
        0, 3), 1, 4), 2, 5), 16, 240), 17, 255), 254, 16), 255, 32), 256, 7), 257, 8),
        800, 161), 801, 162), 1055, 163), 1824, 178)

InitIndirect ==
    \E op \in IndirectOpcodes, operand \in IndirectOperands,
       x \in IndirectX, y \in IndirectY :
        /\ register_a = 85
        /\ register_x = x
        /\ register_y = y
        /\ status = RESET_STATUS
        /\ program_counter = 1536
        /\ stack_pointer = STACK_RESET
        /\ memory = Place(Place(IndirectBackground, 1536, op), 1537, operand)
        /\ panic = NoPanic
        /\ code = 0
        /\ program_counter_state = 0
        /\ phase = "running"
        /\ call = Call("run", 0, 0, 0)
        /\ program = Vec(<< >>)
        /\ accesses = 0
        /\ runs = 1
        /\ ppu = ppu_new

NextIndirect == RunLoop

SpecIndirect == InitIndirect /\ [][NextIndirect]_vars

\* the zero-page pointer of Indirect_X and the base of Indirect_Y for the
\* instruction at the PC
IndirectXPointer == (Peek(memory, program_counter + 1) + register_x) % 256
IndirectYBase == Peek(memory, program_counter + 1)
\* the addresses the claim gives: both pointer bytes from the zero page
IndirectXAddress ==
    Peek(memory, IndirectXPointer) + 256 * Peek(memory, (IndirectXPointer + 1) % 256)
IndirectYAddress ==
    (Peek(memory, IndirectYBase) + 256 * Peek(memory, (IndirectYBase + 1) % 256)
        + register_y) % 65536

\* C21: Indirect_X reads the pointer's low byte from (operand + X) mod 256
\* and its high byte from the next zero-page cell mod 256; Indirect_Y reads
\* them from base and (base + 1) mod 256 and adds Y with wrap at 2^16; an
\* executed LDA (zp,X) or LDA (zp),Y loads the byte at that address.
C21_IndirectPointerInZeroPage ==
    [][(phase = "running" /\ program_counter + 1 < MEM_SIZE)
        => /\ ResolvedAddress("Indirect_X") = Result(IndirectXAddress)
           /\ ResolvedAddress("Indirect_Y") = Result(IndirectYAddress)
           /\ (phase' = "running" /\ FetchedByte = 161)
                  => register_a' = Peek(memory, IndirectXAddress)
           /\ (phase' = "running" /\ FetchedByte = 177)
                  => register_a' = Peek(memory, IndirectYAddress)]_vars

\* LDA ($FF),Y with Y = 1 has taken the pointer $0320 from $FF and $00 and
\* loaded the $A2 of $0321
C21_Witness ==
    /\ phase = "running"
    /\ code = 177
    /\ program_counter = 1538
    /\ Peek(memory, 1537) = 255
    /\ register_y = 1
    /\ register_a = 162

----------------------------------------------------------------------------
(* The PPU driven by its owner: SpecPpu starts from NesPPU::new() and      *)
(* interleaves tick, write_to_ctrl, read_status and poll_nmi_interrupt.    *)

\* the cycle counts passed to tick: multiples of 31, which divides 341, so
\* that the cycle counter takes 11 values
TickCycles == {0, 31, 248}
\* the bytes written to the control register
CtrlValues == {0, 128}

cpu_idle == <<cpu_vars, code, program_counter_state, phase, program, accesses, runs>>

InitPpu ==
    /\ register_a = new.a
    /\ register_x = new.x
    /\ register_y = new.y
    /\ status = new.p
    /\ program_counter = new.pc
    /\ stack_pointer = new.sp
    /\ memory = new.mem
    /\ panic = new.err
    /\ code = 0
    /\ program_counter_state = 0
    /\ phase = "idle"
    /\ call = Call("new", 0, 0, 0)
    /\ program = Vec(<< >>)
    /\ accesses = 0
    /\ runs = 0
    /\ ppu = ppu_new

\* ppu.tick(c)
Tick ==
    /\ \E c \in TickCycles :
       \E r \in {tick(ppu, c)} :
         /\ ppu' = r.ppu
         /\ call' = Call("tick", 0, c, r.ret)
    /\ UNCHANGED cpu_idle

\* ppu.write_to_ctrl(value)
WriteToCtrl ==
    /\ \E value \in CtrlValues :
         /\ ppu' = write_to_ctrl(ppu, value)
         /\ call' = Call("write_to_ctrl", 0, value, 0)
    /\ UNCHANGED cpu_idle

\* ppu.read_status()
ReadStatus ==
    /\ \E r \in {read_status(ppu)} :
         /\ ppu' = r.ppu
         /\ call' = Call("read_status", 0, 0, r.ret)
    /\ UNCHANGED cpu_idle

\* ppu.poll_nmi_interrupt()
PollNmiInterrupt ==
    /\ \E r \in {poll_nmi_interrupt(ppu)} :
         /\ ppu' = r.ppu
         /\ call' = Call("poll_nmi_interrupt", 0, 0, r.ret)
    /\ UNCHANGED cpu_idle

NextPpu ==
    \/ Tick
    \/ WriteToCtrl
    \/ ReadStatus
    \/ PollNmiInterrupt

SpecPpu == InitPpu /\ [][NextPpu]_vars

----------------------------------------------------------------------------
(* The scanline clock alone: SpecTick starts from NesPPU::new() and only   *)
(* ticks, with cycle counts that take the cycle counter through 0..340.    *)

ClockCycles == {0, 1, 255}

InitTick == InitPpu

\* ppu.tick(c)
ClockTick ==
    /\ \E c \in ClockCycles :
       \E r \in {tick(ppu, c)} :
         /\ ppu' = r.ppu
         /\ call' = Call("tick", 0, c, r.ret)
    /\ UNCHANGED cpu_idle

NextTick == ClockTick

SpecTick == InitTick /\ [][NextTick]_vars

----------------------------------------------------------------------------
(* The CPU in run's loop beside a PPU that is one scanline before vblank   *)
(* with NMI generation enabled: SpecNmi interleaves run's iterations with  *)
(* the owner's ticks, which set the NMI latch on reaching scanline 241.    *)

\* the NMI handler address stored at $FFFA/$FFFB, and its first opcode (INX)
NMI_VECTOR == 65530
NmiHandler == 1792
NmiHandlerOpcode == 232
\* the cycle counter one scanline before vblank
NmiCycles == {310}
\* the instruction at the PC: LDA #, TAX, INX, STA zp, CMP #, BIT zp
NmiOpcodes == {169, 170, 232, 133, 201, 36}

InitNmi ==
    \E op \in NmiOpcodes, cycle \in NmiCycles :
        /\ register_a = 1
        /\ register_x = 2
        /\ register_y = 3
        /\ status = RESET_STATUS
        /\ program_counter = 1536
        /\ stack_pointer = STACK_RESET
        /\ memory = Place(Place(Place(Place(Place(EmptyMemory,
                        NMI_VECTOR, NmiHandler % 256),
                        NMI_VECTOR + 1, NmiHandler \div 256),
                        NmiHandler, NmiHandlerOpcode),
                        1536, op), 1537, 16)
        /\ panic = NoPanic
        /\ code = 0
        /\ program_counter_state = 0
        /\ phase = "running"
        /\ call = Call("run", 0, 0, 0)
        /\ program = Vec(<< >>)
        /\ accesses = 0
        /\ runs = 1
        /\ ppu = [ppu_new EXCEPT !.ctrl = GENERATE_NMI, !.scanline = 240, !.cycle = cycle]

NextNmi ==
    \/ RunLoop
    \/ Tick

SpecNmi == InitNmi /\ [][NextNmi]_vars

\* the step is an iteration of run's loop
CpuStep ==
    <<cpu_vars, code, program_counter_state, phase>>'
        # <<cpu_vars, code, program_counter_state, phase>>

\* C22: an iteration of run that starts with the NMI latch set services the
\* NMI before it fetches: the latch is consumed, PC and P (bit 5 set, BREAK
\* clear) are pushed, INTERRUPT_DISABLE is set, and the opcode the
\* iteration fetches is the one at the address stored at $FFFA.
C22_NmiServicedBeforeFetch ==
    [][(phase = "running" /\ ppu.nmi_interrupt # None /\ CpuStep)
        => /\ ppu'.nmi_interrupt = None
           /\ Peek(memory', STACK_END + stack_pointer) = program_counter \div 256
           /\ Peek(memory', STACK_END + stack_pointer - 1) = program_counter % 256
           /\ Peek(memory', STACK_END + stack_pointer - 2) =
                  remove(insert(status, 32), 16)
           /\ contains(status', INTERRUPT_DISABLE)
           /\ code' = Peek(memory, Peek(memory, NMI_VECTOR)
                                   + 256 * Peek(memory, NMI_VECTOR + 1))]_vars

\* C23: poll_nmi_interrupt returns the content of the NMI latch and leaves
\* the latch empty and the rest of the PPU as it was, so a poll that
\* directly follows a poll returns None and a poll of an empty latch
\* changes no PPU state.
C23_PollTakesLatch ==
    [][(call'.name = "poll_nmi_interrupt")
        => /\ call'.ret = ppu.nmi_interrupt
           /\ ppu' = [ppu EXCEPT !.nmi_interrupt = None]
           /\ (call.name = "poll_nmi_interrupt") => call'.ret = None
           /\ (ppu.nmi_interrupt = None) => ppu' = ppu]_vars

\* a poll in vblank has returned Some(1) and emptied the latch
C23_Witness ==
    /\ call.name = "poll_nmi_interrupt"
    /\ call.ret = Some(1)
    /\ ppu.nmi_interrupt = None
    /\ ppu.scanline = 241
    /\ is_in_vblank(ppu.status)

----------------------------------------------------------------------------
(* run_with_callback, as tests.rs drives it: the bytes of a program are    *)
(* written at $0064, PC and the registers are assigned, and the loop calls *)
(* the callback and then executes one iteration of run.  SpecTrace keeps   *)
(* what each invocation of the callback saw in call.ret.                   *)

\* test_format_trace: LDX #$01; DEX; DEY; BRK
FormatTraceProgram == <<162, 1, 202, 136, 0>>
\* INX followed by one instruction of the table
TracePrograms ==
    {FormatTraceProgram} \cup { <<232>> \o Instruction(op, 16, 0) : op \in ValueOpcodes }
TraceStart == 100

\* bus.mem_write(addr + i, bytes[i]) for every byte
WriteProgram(addr, bytes) ==
    [i \in {addr + k - 1 : k \in {j \in 1 .. Len(bytes) : bytes[j] # 0}}
        |-> bytes[i - addr + 1]]

\* what the callback sees of the CPU it is handed
Observed(c) == [pc |-> c.pc, a |-> c.a, x |-> c.x, y |-> c.y, p |-> c.p, sp |-> c.sp]

InitTrace ==
    \E bytes \in TracePrograms :
        /\ register_a = 1
        /\ register_x = 2
        /\ register_y = 3
        /\ status = new.p
        /\ program_counter = TraceStart
        /\ stack_pointer = new.sp
        /\ memory = WriteProgram(TraceStart, bytes)
        /\ panic = NoPanic
        /\ code = 0
        /\ program_counter_state = 0
        /\ phase = "running"
        /\ call = Call("run_with_callback", 0, 0, << >>)
        /\ program = Vec(bytes)
        /\ accesses = 0
        /\ runs = 1
        /\ ppu = ppu_new

\* one iteration of run_with_callback: callback(self), then the iteration of run
RunWithCallbackLoop ==
    /\ phase = "running"
    /\ call.name = "run_with_callback"
    /\ \E oc \in BOOLEAN :
       \E r \in {run_iteration(Core, code, program_counter_state, oc)} :
         /\ Commit(r.core)
         /\ code' = r.code
         /\ program_counter_state' = r.pcs
         /\ phase' = CASE r.outcome = "continue" -> "running"
                       [] r.outcome = "return" -> "idle"
                       [] OTHER -> "panicked"
    /\ call' = [call EXCEPT !.ret = Append(call.ret, Observed(Core))]
    /\ UNCHANGED <<program, accesses, runs, ppu>>

NextTrace == RunWithCallbackLoop

SpecTrace == InitTrace /\ [][NextTrace]_vars

\* C24: the callback of run_with_callback is invoked once before each
\* fetch and sees the registers the previous instruction left: when the run
\* of LDX #$01; DEX; DEY; BRK from $0064 with X = 2 has ended, the first
\* three invocations have seen X = 2 at $0064, X = 1 at $0066 and X = 0 at
\* $0067.
C24_CallbackSeesStateBeforeFetch ==
    (call.name = "run_with_callback" /\ program = Vec(FormatTraceProgram)
        /\ phase # "running")
        => /\ Len(call.ret) >= 3
           /\ call.ret[1].pc = 100 /\ call.ret[1].x = 2
           /\ call.ret[2].pc = 102 /\ call.ret[2].x = 1
           /\ call.ret[3].pc = 103 /\ call.ret[3].x = 0

\* C25: a program started with load_and_run executes from the A, X and Y
\* values the caller assigned before the call: when load_and_run follows an
\* assignment to register_a or register_x, the run loop is entered with the
\* registers as assigned.
C25_RunsFromAssignedRegisters ==
    [][(call.name \in {"register_a", "register_x"} /\ call'.name = "load_and_run")
        => /\ register_a' = register_a
           /\ register_x' = register_x
           /\ register_y' = register_y]_vars

\* the instruction length that goes with an addressing mode: the opcode
\* byte and the operand bytes get_operand_address reads at the PC
ModeLength(mode) ==
    IF mode \in {"Absolute", "Absolute_X", "Absolute_Y"} THEN 3 ELSE 2

\* C26: every table entry whose handler resolves an operand address has the
\* length of its addressing mode (2 for Immediate, ZeroPage, ZeroPage_X,
\* ZeroPage_Y, Indirect_X, Indirect_Y; 3 for Absolute, Absolute_X,
\* Absolute_Y), so that a completed instruction leaves the PC just after
\* the operand bytes its resolver read.
C26_LengthMatchesMode ==
    [][(Completes /\ FetchedByte \in DOMAIN OPCODES_MAP
            /\ FetchedMode # "NoneAddressing")
        => /\ OPCODES_MAP[FetchedByte].len = ModeLength(FetchedMode)
           /\ program_counter' = (program_counter + ModeLength(FetchedMode)) % 65536]_vars

\* the opcode bytes of the match arms of CPU::run
DispatchedOpcodes ==
    {0, 6, 10, 14, 16, 22, 24, 30, 32, 33, 36, 37, 41, 44, 45, 48, 49, 53, 57, 61,
     65, 69, 70, 73, 74, 76, 77, 78, 80, 81, 85, 86, 88, 89, 93, 94, 108, 112, 129,
     133, 136, 141, 144, 145, 149, 153, 157, 160, 161, 162, 164, 165, 166, 169, 170,
     172, 173, 174, 176, 177, 180, 181, 182, 184, 185, 188, 189, 190, 192, 193, 196,
     197, 198, 200, 201, 202, 204, 205, 206, 208, 209, 213, 214, 216, 217, 221, 222,
     224, 228, 230, 232, 236, 238, 240, 246, 254}

\* C27: every opcode byte that run dispatches to a handler has an entry in
\* the opcode table, so fetching it does not abort at the table lookup.
C27_DispatchedOpcodesAreTabled ==
    [][(phase = "running" /\ FetchedByte \in DispatchedOpcodes
            /\ program_counter + 1 < MEM_SIZE)
        => /\ FetchedByte \in DOMAIN OPCODES_MAP
           /\ panic' # OpcodeNotFound]_vars

\* C28: before and after every tick(c) the cycle counter is in 0..340 and
\* the scanline counter in 0..261; a tick advances the scanline by at most
\* one, and returns true exactly when it takes the scanline from 261 to
\* 262, which it resets to 0.
C28_TickKeepsCountersInRange ==
    [][(call'.name = "tick")
        => /\ ppu.cycle \in 0 .. 340 /\ ppu'.cycle \in 0 .. 340
           /\ ppu.scanline \in 0 .. 261 /\ ppu'.scanline \in 0 .. 261
           /\ call'.ret = (ppu.scanline = 261 /\ ppu.cycle + call'.data >= 341)
           /\ call'.ret => ppu'.scanline = 0
           /\ ~call'.ret => ppu'.scanline \in {ppu.scanline, ppu.scanline + 1}]_vars

\* tick(255) at cycle 340 of scanline 261 has returned true
C28_Witness ==
    /\ call.name = "tick"
    /\ call.data = 255
    /\ call.ret = TRUE
    /\ ppu.scanline = 0
    /\ ppu.cycle = 254

\* the step sets the NMI latch
LatchSet == ppu.nmi_interrupt = None /\ ppu'.nmi_interrupt # None

\* C29: under any interleaving of tick, write_to_ctrl, read_status and
\* poll_nmi_interrupt from NesPPU::new the NMI latch is non-empty only
\* while the scanline is in 241..261; tick sets it exactly on the call that
\* moves the scanline to 241 with NMI generation enabled, write_to_ctrl
\* only on a disabled-to-enabled transition while the vblank flag is set,
\* read_status and poll_nmi_interrupt never, and the tick that wraps the
\* scanline to 0 leaves the latch empty.
C29_LatchOnlyInVblank ==
    [][/\ (ppu'.nmi_interrupt # None) => ppu'.scanline \in 241 .. 261
       /\ (call'.name = "tick")
              => /\ LatchSet => /\ ppu.scanline = 240 /\ ppu'.scanline = 241
                                /\ generate_vblank_nmi(ppu.ctrl)
                 /\ (ppu.scanline = 240 /\ ppu'.scanline = 241
                         /\ generate_vblank_nmi(ppu.ctrl))
                        => ppu'.nmi_interrupt = Some(1)
                 /\ (ppu.scanline = 261 /\ ppu'.scanline = 0)
                        => ppu'.nmi_interrupt = None
       /\ (call'.name = "write_to_ctrl")
              => (LatchSet => /\ ~generate_vblank_nmi(ppu.ctrl)
                              /\ generate_vblank_nmi(ppu'.ctrl)
                              /\ is_in_vblank(ppu.status))
       /\ (call'.name \in {"read_status", "poll_nmi_interrupt"}) => ~LatchSet]_vars

\* write_to_ctrl($80) has been called on the last scanline of vblank and the
\* latch is Some(1)
C29_Witness ==
    /\ call.name = "write_to_ctrl"
    /\ call.data = 128
    /\ ppu.nmi_interrupt = Some(1)
    /\ ppu.scanline = 261
    /\ is_in_vblank(ppu.status)

====
